---- MODULE Spec2Model ----
(***************************************************************************)
(* The backtest execution core of merco: the StrategyContext state machine *)
(* (strategy/context.rs), the rounding of MarketPrecision                  *)
(* (models/exchange.rs) and the task that runs a backtest candle by        *)
(* candle (tasks/backtest.rs, handlers/backtest.rs).                       *)
(*                                                                         *)
(* Decimals are integers: every price, amount and step drawn below is a    *)
(* whole number, and a fee rate is a fraction num/den, so that every       *)
(* BigDecimal the code computes is a whole number of the model too.        *)
(***************************************************************************)
EXTENDS Integers, Sequences, FiniteSets, TLC

\* ------------------------------------------------------------------ bounds

\* Longest candle sequence get_candles returns.
MaxCandles == 2
\* Most context calls the strategy makes in one run, over all its ticks.
MaxCalls == 3
\* Largest magnitude of a value handed to round_amount on its own.
MaxValue == 25

\* ------------------------------------------------------- program constants

InitialCapital == 10000
BACKTEST_BROADCAST_INTERVAL == 100

\* ------------------------------------------------------------ input domains

\* The candles get_candles may return, timestamps aside: prices >= 0 and
\* low <= close <= high.
CandleShapes ==
    { [low |-> 100, close |-> 200, high |-> 200],
      [low |-> 200, close |-> 200, high |-> 400],
      [low |-> 200, close |-> 400, high |-> 400],
      [low |-> 300, close |-> 400, high |-> 400] }
\* Amounts the strategy passes: negative, and positive ones that the step 20
\* rounds to zero and to 20.
Amounts == {-10, 10, 30}
\* Limit prices the strategy passes: negative, among the candle prices, above
\* them (and, rounded to the step 20, the highest of them).
LimitPrices == {-100, 200, 410}
\* amount_precision of the exchange metadata: 0 disables rounding.
AmountSteps == {0, 20}
\* Fee schedules of the exchange metadata: rates >= 0, as fractions, the maker
\* rate different from the taker rate.
FeeSchedules ==
    { [maker |-> [num |-> 2, den |-> 100], taker |-> [num |-> 1, den |-> 100]] }

\* Values, steps and modes round_amount is applied to on its own: whole
\* numbers of the smallest unit, of both signs; steps >= 0 that divide some of
\* the values and not others.
RoundingValues == (0 - MaxValue)..MaxValue
RoundingSteps == {0, 3, 20}
RoundingModes == {"Down", "Up"}

\* The runs the statistic pass is applied to on its own: candles whose closes
\* differ, an exchange whose amount step is 1 (so that a fee is at least 1),
\* and a strategy that buys and sells at the market 1 or 3 at a time, up to
\* MaxCalls calls a run.
StatisticShapes ==
    { [low |-> 10, close |-> 10, high |-> 20],
      [low |-> 10, close |-> 20, high |-> 20] }
StatisticSteps == {1}
StatisticAmounts == {1, 3}

\* The candle counts and candle indices the progress of the loop is computed
\* for on its own: short runs, runs of a little more than one broadcast
\* interval, and runs of millions of candles (five years of one-minute
\* candles), at their first and last candles and at those around a broadcast.
ProgressTotals == {1, 2, 3, 4, 5, 101, 102, 150, 199, 200, 2684501, 2684502, 2684701}
ProgressIndices(total) ==
    { i \in {0, 1, 2, 100, 101, total - 101, total - 2, total - 1} : 0 <= i /\ i < total }

\* ---------------------------------------------------------------- decimals

Rat(n, d) == [num |-> n, den |-> d]

\* with_scale_round with Up stepping away from zero from a whole number too.
with_scale_round_up_always(q, mode) ==
    LET mag == IF q.num >= 0 THEN q.num ELSE -q.num
        sgn == IF q.num >= 0 THEN 1 ELSE -1
        whole == mag \div q.den
    IN  IF mode = "Down" THEN sgn * whole ELSE sgn * (whole + 1)

\* BigDecimal::with_scale_round(0, mode) of the fraction q (q.den > 0):
\* Down rounds toward zero, Up away from zero.
with_scale_round(q, mode) ==
    LET mag == IF q.num >= 0 THEN q.num ELSE -q.num
        sgn == IF q.num >= 0 THEN 1 ELSE -1
        whole == mag \div q.den
        exact == (mag % q.den) = 0
    IN  IF mode = "Down" \/ exact THEN sgn * whole ELSE sgn * (whole + 1)

\* MarketPrecision::round_amount. With a zero step the value is returned as it
\* is (a whole number for every value the model computes).
round_amount(self, value, mode) ==
    IF self.amount_precision = 0
    THEN value.num \div value.den
    ELSE LET divided == Rat(value.num, value.den * self.amount_precision)
             floored == with_scale_round(divided, mode)
         IN  floored * self.amount_precision

\* ----------------------------------------------------------- StrategyContext

NoContext == [built |-> FALSE]

\* StrategyContext::new
new_context(balance, fees, precision) ==
    [ built |-> TRUE,
      candles |-> <<>>,
      balance |-> balance,
      position |-> 0,
      trades |-> <<>>,
      orders |-> <<>>,
      fees |-> fees,
      precision |-> precision ]

\* StrategyContext::candle (the runner has pushed a candle before any call).
candle_of(self) == self.candles[Len(self.candles)]

Trade(candle, type, price, amount, fee) ==
    [ timestamp |-> candle.timestamp, trade_type |-> type, price |-> price,
      amount |-> amount, fee |-> fee, profit |-> "None" ]

Order(id, type, price, amount, fee) ==
    [ id |-> id, order_type |-> type, price |-> price, amount |-> amount, fee |-> fee ]

\* What a context call returns: the context after it, Ok/Err, and the Option<Uuid>
\* of limit_* (0 is None).
Ok(self, id) == [ctx |-> self, ok |-> TRUE, id |-> id]
Err(self) == [ctx |-> self, ok |-> FALSE, id |-> 0]

\* cancel_order that refunds the order and leaves it resting.
cancel_order_leaves_order(self, order_id) ==
    LET found == { i \in 1..Len(self.orders) : self.orders[i].id = order_id }
    IN  IF found = {} THEN self
        ELSE LET pos == CHOOSE i \in found : \A j \in found : i <= j
                 order == self.orders[pos]
             IN  IF order.order_type = "LimitBuy"
                 THEN [self EXCEPT !.balance = @ + (order.price * order.amount + order.fee)]
                 ELSE [self EXCEPT !.position = @ + order.amount,
                                   !.balance = @ + order.fee]

\* cancel_order returning the cost of a LimitBuy without its fee.
cancel_order_keeps_fee(self, order_id) ==
    LET found == { i \in 1..Len(self.orders) : self.orders[i].id = order_id }
    IN  IF found = {} THEN self
        ELSE LET pos == CHOOSE i \in found : \A j \in found : i <= j
                 order == self.orders[pos]
                 refunded ==
                    IF order.order_type = "LimitBuy"
                    THEN [self EXCEPT !.balance = @ + order.price * order.amount]
                    ELSE [self EXCEPT !.position = @ + order.amount,
                                      !.balance = @ + order.fee]
             IN  [refunded EXCEPT !.orders =
                    SubSeq(self.orders, 1, pos - 1) \o SubSeq(self.orders, pos + 1, Len(self.orders))]

\* StrategyContext::cancel_order
cancel_order(self, order_id) ==
    LET found == { i \in 1..Len(self.orders) : self.orders[i].id = order_id }
    IN  IF found = {} THEN self
        ELSE LET pos == CHOOSE i \in found : \A j \in found : i <= j
                 order == self.orders[pos]
                 refunded ==
                    IF order.order_type = "LimitBuy"
                    THEN [self EXCEPT !.balance = @ + (order.price * order.amount + order.fee)]
                    ELSE [self EXCEPT !.position = @ + order.amount,
                                      !.balance = @ + order.fee]
             IN  [refunded EXCEPT !.orders =
                    SubSeq(self.orders, 1, pos - 1) \o SubSeq(self.orders, pos + 1, Len(self.orders))]

\* market_buy journalling the trade before it checks the funds.
market_buy_journal_first(self, amount_in) ==
    LET amount == round_amount(self.precision, Rat(amount_in, 1), "Down")
        candle == candle_of(self)
        price == candle.close
        cost == price * amount
        fee == round_amount(self.precision,
                            Rat(cost * self.fees.taker.num, self.fees.taker.den), "Up")
        total == cost + fee
        journalled == [self EXCEPT !.trades =
                          Append(@, Trade(candle, "MarketBuy", price, amount, fee))]
    IN  IF amount <= 0 THEN Err(self)
        ELSE IF total > self.balance THEN Err(journalled)
        ELSE Ok([journalled EXCEPT !.balance = @ - total, !.position = @ + amount], 0)

\* StrategyContext::market_buy
market_buy(self, amount_in) ==
    LET amount == round_amount(self.precision, Rat(amount_in, 1), "Down")
        candle == candle_of(self)
        price == candle.close
        cost == price * amount
        fee == round_amount(self.precision,
                            Rat(cost * self.fees.taker.num, self.fees.taker.den), "Up")
        total == cost + fee
    IN  IF amount <= 0 THEN Err(self)
        ELSE IF total > self.balance THEN Err(self)
        ELSE Ok([self EXCEPT !.balance = @ - total,
                             !.position = @ + amount,
                             !.trades = Append(@, Trade(candle, "MarketBuy", price, amount, fee))], 0)

\* market_sell without the check of the amount against the position.
market_sell_unchecked(self, amount_in) ==
    LET amount == round_amount(self.precision, Rat(amount_in, 1), "Down")
        candle == candle_of(self)
        price == candle.close
        proceeds == price * amount
        fee == round_amount(self.precision,
                            Rat(proceeds * self.fees.taker.num, self.fees.taker.den), "Up")
        revenue == proceeds - fee
    IN  IF amount <= 0 THEN Err(self)
        ELSE IF revenue < 0 THEN Err(self)
        ELSE Ok([self EXCEPT !.position = @ - amount,
                             !.balance = @ + revenue,
                             !.trades = Append(@, Trade(candle, "MarketSell", price, amount, fee))], 0)

\* StrategyContext::market_sell
market_sell(self, amount_in) ==
    LET amount == round_amount(self.precision, Rat(amount_in, 1), "Down")
        candle == candle_of(self)
        price == candle.close
        proceeds == price * amount
        fee == round_amount(self.precision,
                            Rat(proceeds * self.fees.taker.num, self.fees.taker.den), "Up")
        revenue == proceeds - fee
    IN  IF amount <= 0 THEN Err(self)
        ELSE IF amount > self.position THEN Err(self)
        ELSE IF revenue < 0 THEN Err(self)
        ELSE Ok([self EXCEPT !.position = @ - amount,
                             !.balance = @ + revenue,
                             !.trades = Append(@, Trade(candle, "MarketSell", price, amount, fee))], 0)

\* limit_buy that falls back to market_buy only when the price is above the close.
limit_buy_strict(self, price_in, amount_in, order_id) ==
    LET price == round_amount(self.precision, Rat(price_in, 1), "Down")
        amount == round_amount(self.precision, Rat(amount_in, 1), "Down")
        candle == candle_of(self)
        cost == amount * price
        fee == round_amount(self.precision,
                            Rat(cost * self.fees.maker.num, self.fees.maker.den), "Up")
        total == cost + fee
    IN  IF amount <= 0 THEN Err(self)
        ELSE IF price > candle.close
        THEN LET r == market_buy(self, amount) IN IF r.ok THEN Ok(r.ctx, 0) ELSE r
        ELSE IF total > self.balance THEN Err(self)
        ELSE Ok([self EXCEPT !.balance = @ - total,
                             !.orders = Append(@, Order(order_id, "LimitBuy", price, amount, fee))],
                order_id)

\* StrategyContext::limit_buy; order_id is the Uuid::new_v4() it draws.
limit_buy(self, price_in, amount_in, order_id) ==
    LET price == round_amount(self.precision, Rat(price_in, 1), "Down")
        amount == round_amount(self.precision, Rat(amount_in, 1), "Down")
        candle == candle_of(self)
        cost == amount * price
        fee == round_amount(self.precision,
                            Rat(cost * self.fees.maker.num, self.fees.maker.den), "Up")
        total == cost + fee
    IN  IF amount <= 0 THEN Err(self)
        ELSE IF price >= candle.close
        THEN LET r == market_buy(self, amount) IN IF r.ok THEN Ok(r.ctx, 0) ELSE r
        ELSE IF total > self.balance THEN Err(self)
        ELSE Ok([self EXCEPT !.balance = @ - total,
                             !.orders = Append(@, Order(order_id, "LimitBuy", price, amount, fee))],
                order_id)

\* limit_sell that rests the order without taking its amount out of the position.
limit_sell_unreserved(self, price_in, amount_in, order_id) ==
    LET price == round_amount(self.precision, Rat(price_in, 1), "Down")
        amount == round_amount(self.precision, Rat(amount_in, 1), "Down")
        candle == candle_of(self)
        proceeds == price * amount
        fee == round_amount(self.precision,
                            Rat(proceeds * self.fees.maker.num, self.fees.maker.den), "Up")
    IN  IF amount <= 0 THEN Err(self)
        ELSE IF amount > self.position THEN Err(self)
        ELSE IF price <= candle.close
        THEN LET r == market_sell(self, amount) IN IF r.ok THEN Ok(r.ctx, 0) ELSE r
        ELSE IF fee > self.balance THEN Err(self)
        ELSE Ok([self EXCEPT !.balance = @ - fee,
                             !.orders = Append(@, Order(order_id, "LimitSell", price, amount, fee))],
                order_id)

\* StrategyContext::limit_sell
limit_sell(self, price_in, amount_in, order_id) ==
    LET price == round_amount(self.precision, Rat(price_in, 1), "Down")
        amount == round_amount(self.precision, Rat(amount_in, 1), "Down")
        candle == candle_of(self)
        proceeds == price * amount
        fee == round_amount(self.precision,
                            Rat(proceeds * self.fees.maker.num, self.fees.maker.den), "Up")
    IN  IF amount <= 0 THEN Err(self)
        ELSE IF amount > self.position THEN Err(self)
        ELSE IF price <= candle.close
        THEN LET r == market_sell(self, amount) IN IF r.ok THEN Ok(r.ctx, 0) ELSE r
        ELSE IF fee > self.balance THEN Err(self)
        ELSE Ok([self EXCEPT !.position = @ - amount,
                             !.balance = @ - fee,
                             !.orders = Append(@, Order(order_id, "LimitSell", price, amount, fee))],
                order_id)

\* execute_limit_buy journalling the fill at the first candle's timestamp.
execute_limit_buy_stale(self, candle, price, amount, fee) ==
    [self EXCEPT !.position = @ + amount,
                 !.trades = Append(@, Trade(self.candles[1], "LimitBuy", price, amount, fee))]

\* StrategyContext::execute_limit_buy
execute_limit_buy(self, candle, price, amount, fee) ==
    [self EXCEPT !.position = @ + amount,
                 !.trades = Append(@, Trade(candle, "LimitBuy", price, amount, fee))]

\* execute_limit_sell taking the fee from the proceeds once more.
execute_limit_sell_net_of_fee(self, candle, price, amount, fee) ==
    [self EXCEPT !.balance = @ + (price * amount - fee),
                 !.trades = Append(@, Trade(candle, "LimitSell", price, amount, fee))]

\* StrategyContext::execute_limit_sell
execute_limit_sell(self, candle, price, amount, fee) ==
    [self EXCEPT !.balance = @ + price * amount,
                 !.trades = Append(@, Trade(candle, "LimitSell", price, amount, fee))]

\* The first loop of before() matching a LimitSell only below the candle's high.
RECURSIVE orders_to_execute_below_high(_, _)
orders_to_execute_below_high(orders, candle) ==
    IF orders = <<>> THEN <<>>
    ELSE LET order == Head(orders)
             hit == IF order.order_type = "LimitBuy"
                    THEN order.price >= candle.low
                    ELSE order.price < candle.high
         IN  (IF hit THEN <<order>> ELSE <<>>)
                \o orders_to_execute_below_high(Tail(orders), candle)

\* The first loop of before(): the resting orders the candle matches, in the
\* order of self.orders.
RECURSIVE orders_to_execute(_, _)
orders_to_execute(orders, candle) ==
    IF orders = <<>> THEN <<>>
    ELSE LET order == Head(orders)
             hit == IF order.order_type = "LimitBuy"
                    THEN order.price >= candle.low
                    ELSE order.price <= candle.high
         IN  (IF hit THEN <<order>> ELSE <<>>) \o orders_to_execute(Tail(orders), candle)

\* The second loop of before(): execute each collected order, then drop it
\* from self.orders by id.
RECURSIVE execute_orders(_, _, _)
execute_orders(self, candle, todo) ==
    IF todo = <<>> THEN self
    ELSE LET o == Head(todo)
             filled == IF o.order_type = "LimitBuy"
                       THEN execute_limit_buy(self, candle, o.price, o.amount, o.fee)
                       ELSE execute_limit_sell(self, candle, o.price, o.amount, o.fee)
             retained == [filled EXCEPT !.orders = SelectSeq(@, LAMBDA x : x.id # o.id)]
         IN  execute_orders(retained, candle, Tail(todo))

\* before() executing the matched orders last placed first.
before_reversed(self) ==
    LET candle == candle_of(self)
        todo == orders_to_execute(self.orders, candle)
    IN  execute_orders(self, candle, [i \in 1..Len(todo) |-> todo[Len(todo) + 1 - i]])

\* StrategyContext::before
before(self) ==
    LET candle == candle_of(self)
    IN  execute_orders(self, candle, orders_to_execute(self.orders, candle))

\* The loop of end(): cancel_order for each id collected.
RECURSIVE cancel_all(_, _)
cancel_all(self, order_ids) ==
    IF order_ids = <<>> THEN self
    ELSE cancel_all(cancel_order(self, Head(order_ids)), Tail(order_ids))

\* end() cancelling every other order: it walks self.orders by index while
\* cancel_order removes from it.
end_skipping(self) ==
    cancel_all(self, [i \in 1..((Len(self.orders) + 1) \div 2) |-> self.orders[2 * i - 1].id])

\* StrategyContext::end
end(self) ==
    cancel_all(self, [i \in 1..Len(self.orders) |-> self.orders[i].id])

\* A tick that makes the market calls of a script, one after the other; a
\* call that returns Err leaves the context as it was.
RECURSIVE tick_of(_, _)
tick_of(self, script) ==
    IF script = <<>> THEN self
    ELSE LET call == Head(script)
             r == IF call.op = "market_buy" THEN market_buy(self, call.amount)
                  ELSE market_sell(self, call.amount)
         IN  tick_of(r.ctx, Tail(script))

\* The candle loop of execute_backtest and context.end(), for the candles
\* get_candles returned and the calls of the strategy, each with the candle
\* of the tick that makes it.
RECURSIVE candle_loop(_, _, _)
candle_loop(self, shapes, script) ==
    IF shapes = <<>> THEN end(self)
    ELSE LET shape == Head(shapes)
             candle == [timestamp |-> Len(self.candles) + 1, high |-> shape.high,
                        low |-> shape.low, close |-> shape.close]
             pushed == [self EXCEPT !.candles = Append(@, candle)]
             mine == SelectSeq(script, LAMBDA call : call.candle = candle.timestamp)
         IN  candle_loop(tick_of(before(pushed), mine), Tail(shapes), script)

\* ----------------------------------------- calculate_backtest_statistic

\* The BigDecimals of the statistic pass are decimal fractions in lowest
\* terms. Sums, differences and products are exact. A quotient is not: the
\* BigDecimal division stops after a fixed number of digits (100 in the crate,
\* DivisionDigits decimals here), so a quotient that does not terminate is cut.
DivisionDigits == 2
Scale == 10 ^ DivisionDigits

Abs(x) == IF x < 0 THEN -x ELSE x

\* The only member of a set of one: CHOOSE over { e(v) : v \in {x} } is e of
\* the value of x, which is computed once however often e names it.
RECURSIVE Gcd(_, _)
Gcd(a, b) == IF b = 0 THEN a ELSE CHOOSE g \in { Gcd(b, r) : r \in {a % b} } : TRUE

\* n/d (d > 0) in lowest terms.
Dec(n, d) == CHOOSE q \in { Rat(n \div g, d \div g) : g \in {Gcd(Abs(n), d)} } : TRUE

Whole(x) == Rat(x, 1)
Zero == Rat(0, 1)
\* The numerator of p over the denominator Scale: every denominator divides
\* Scale.
Units(p) == p.num * (Scale \div p.den)
Plus(p, q) == Dec(Units(p) + Units(q), Scale)
Minus(p, q) == Dec(Units(p) - Units(q), Scale)
Times(p, q) == Dec(p.num * q.num, p.den * q.den)
\* p / q, q not zero, cut after DivisionDigits decimals.
Over(p, q) ==
    LET sgn == IF (p.num < 0) = (q.num < 0) THEN 1 ELSE -1
    IN  Dec(sgn * ((Abs(Units(p)) * q.den) \div Abs(q.num)), Scale)
Less(p, q) == Units(p) < Units(q)

\* BigDecimal::with_scale_round(2, RoundingMode::HalfUp): to hundredths, a
\* half away from zero.
with_scale_round_half_up(q) ==
    LET sgn == IF q.num >= 0 THEN 1 ELSE -1
        per_hundredth == Scale \div 100
        hundredths == (2 * Abs(Units(q)) + per_hundredth) \div (2 * per_hundredth)
    IN  Dec(sgn * hundredths, 100)

\* ------------------------------------------------------------------- f32

\* The number of binary digits of n >= 1.
RECURSIVE Bits(_)
Bits(n) == IF n < 2 THEN 1 ELSE CHOOSE b \in { 1 + Bits(m) : m \in {n \div 2} } : TRUE

\* n as f32 (usize as f32, and the f32 product of whole numbers): a whole
\* number of more than 24 binary digits is rounded to 24, to the nearest, a
\* tie to the even one.
f32_of(n) ==
    CHOOSE v \in
        { IF unit = 1 THEN n
          ELSE LET kept == n \div unit
                   rest == n % unit
                   up == 2 * rest > unit \/ (2 * rest = unit /\ kept % 2 = 1)
               IN  (IF up THEN kept + 1 ELSE kept) * unit :
            unit \in { IF b <= 24 THEN 1 ELSE 2 ^ (b - 24) : b \in {Bits(n)} } } : TRUE

\* floor(r * 2^n / t) and what is left, for 0 <= r < t, one binary digit at a
\* time.
RECURSIVE Shift(_, _, _)
Shift(r, t, n) ==
    IF n = 0 THEN [quot |-> 0, rest |-> r]
    ELSE CHOOSE x \in
            { IF 2 * s.rest >= t THEN [quot |-> 2 * s.quot + 1, rest |-> 2 * s.rest - t]
              ELSE [quot |-> 2 * s.quot, rest |-> 2 * s.rest] :
                s \in { Shift(r, t, m) : m \in {n - 1} } } : TRUE

\* The binary digits after the point of the f32 nearest to r/t, for
\* 0 < r < t: 23 and the zeros the quotient begins with.
RECURSIVE Lead(_, _)
Lead(r, t) ==
    IF 2 * r >= t THEN 24 ELSE CHOOSE d \in { 1 + Lead(m, t) : m \in {2 * r} } : TRUE

\* The f32 quotient m / t of two whole f32 values, t > 0 and m/t < 2^24:
\* the fraction of 24 binary digits nearest to m/t, a tie to the even one.
f32_quotient(m, t) ==
    CHOOSE q \in
        UNION { { LET kept == (m \div t) * (2 ^ digits) + s.quot
                      up == 2 * s.rest > t \/ (2 * s.rest = t /\ kept % 2 = 1)
                  IN  Dec(IF up THEN kept + 1 ELSE kept, 2 ^ digits) :
                    s \in {Shift(m % t, t, digits)} } :
                digits \in { IF m \div t > 0 THEN 24 - Bits(m \div t)
                             ELSE IF m % t > 0 THEN Lead(m % t, t) ELSE 0 } } : TRUE

\* 100.0 * ((index + 1) as f32) / (total_candles as f32)
progress_of(i, total) ==
    CHOOSE p \in { f32_quotient(m, t) : m \in {f32_of(100 * f32_of(i + 1))},
                                        t \in {f32_of(total)} } : TRUE

\* The locals of calculate_backtest_statistic before its loops; trades_iter
\* is what the peekable iterator has yet to yield.
accumulator(initial_capital, trades) ==
    [ balance |-> initial_capital,
      position |-> 0,
      total_cost |-> Zero,
      max_equity |-> initial_capital,
      max_drawdown |-> 0,
      buy_trades |-> 0,
      sell_trades |-> 0,
      winning_trades |-> 0,
      losing_trades |-> 0,
      gross_profit |-> Zero,
      gross_loss |-> Zero,
      largest_win |-> Zero,
      largest_loss |-> Zero,
      trades_iter |-> trades,
      trades_with_profit |-> <<>> ]

is_buy(trade) == trade.trade_type \in {"MarketBuy", "LimitBuy"}

\* The update for one trade with the profit of a sell taken before its fee.
apply_trade_before_fee(acc, trade) ==
    IF is_buy(trade)
    THEN LET cost == trade.price * trade.amount + trade.fee
         IN  [acc EXCEPT !.buy_trades = @ + 1,
                         !.total_cost = Plus(@, Whole(cost)),
                         !.balance = @ - cost,
                         !.position = @ + trade.amount,
                         !.trades_with_profit = Append(@, trade)]
    ELSE LET proceeds == trade.price * trade.amount
             revenue == proceeds - trade.fee
             average_cost == IF acc.position = 0 THEN Zero
                             ELSE Over(acc.total_cost, Whole(acc.position))
             consumed == Times(average_cost, Whole(trade.amount))
             profit == Minus(Whole(proceeds), consumed)
             position == acc.position - trade.amount
             won == Less(Zero, profit)
             lost == Less(profit, Zero)
         IN  [acc EXCEPT !.sell_trades = @ + 1,
                         !.position = position,
                         !.balance = @ + revenue,
                         !.total_cost = IF position = 0 THEN Zero ELSE Minus(@, consumed),
                         !.winning_trades = IF won THEN @ + 1 ELSE @,
                         !.gross_profit = IF won THEN Plus(@, profit) ELSE @,
                         !.largest_win = IF won /\ Less(@, profit) THEN profit ELSE @,
                         !.losing_trades = IF lost THEN @ + 1 ELSE @,
                         !.gross_loss = IF lost THEN Plus(@, profit) ELSE @,
                         !.largest_loss = IF lost /\ Less(profit, @) THEN profit ELSE @,
                         !.trades_with_profit = Append(@, [trade EXCEPT !.profit = profit])]

\* The update for one trade without the reset of total_cost when the position
\* reaches zero.
apply_trade_without_reset(acc, trade) ==
    IF is_buy(trade)
    THEN LET cost == trade.price * trade.amount + trade.fee
         IN  [acc EXCEPT !.buy_trades = @ + 1,
                         !.total_cost = Plus(@, Whole(cost)),
                         !.balance = @ - cost,
                         !.position = @ + trade.amount,
                         !.trades_with_profit = Append(@, trade)]
    ELSE LET proceeds == trade.price * trade.amount
             revenue == proceeds - trade.fee
             average_cost == IF acc.position = 0 THEN Zero
                             ELSE Over(acc.total_cost, Whole(acc.position))
             consumed == Times(average_cost, Whole(trade.amount))
             profit == Minus(Whole(revenue), consumed)
             position == acc.position - trade.amount
             won == Less(Zero, profit)
             lost == Less(profit, Zero)
         IN  [acc EXCEPT !.sell_trades = @ + 1,
                         !.position = position,
                         !.balance = @ + revenue,
                         !.total_cost = Minus(@, consumed),
                         !.winning_trades = IF won THEN @ + 1 ELSE @,
                         !.gross_profit = IF won THEN Plus(@, profit) ELSE @,
                         !.largest_win = IF won /\ Less(@, profit) THEN profit ELSE @,
                         !.losing_trades = IF lost THEN @ + 1 ELSE @,
                         !.gross_loss = IF lost THEN Plus(@, profit) ELSE @,
                         !.largest_loss = IF lost /\ Less(profit, @) THEN profit ELSE @,
                         !.trades_with_profit = Append(@, [trade EXCEPT !.profit = profit])]

\* The update for one trade that leaves the buys out of the output journal.
apply_trade_sells_only(acc, trade) ==
    IF is_buy(trade)
    THEN LET cost == trade.price * trade.amount + trade.fee
         IN  [acc EXCEPT !.buy_trades = @ + 1,
                         !.total_cost = Plus(@, Whole(cost)),
                         !.balance = @ - cost,
                         !.position = @ + trade.amount]
    ELSE LET proceeds == trade.price * trade.amount
             revenue == proceeds - trade.fee
             average_cost == IF acc.position = 0 THEN Zero
                             ELSE Over(acc.total_cost, Whole(acc.position))
             consumed == Times(average_cost, Whole(trade.amount))
             profit == Minus(Whole(revenue), consumed)
             position == acc.position - trade.amount
             won == Less(Zero, profit)
             lost == Less(profit, Zero)
         IN  [acc EXCEPT !.sell_trades = @ + 1,
                         !.position = position,
                         !.balance = @ + revenue,
                         !.total_cost = IF position = 0 THEN Zero ELSE Minus(@, consumed),
                         !.winning_trades = IF won THEN @ + 1 ELSE @,
                         !.gross_profit = IF won THEN Plus(@, profit) ELSE @,
                         !.largest_win = IF won /\ Less(@, profit) THEN profit ELSE @,
                         !.losing_trades = IF lost THEN @ + 1 ELSE @,
                         !.gross_loss = IF lost THEN Plus(@, profit) ELSE @,
                         !.largest_loss = IF lost /\ Less(profit, @) THEN profit ELSE @,
                         !.trades_with_profit = Append(@, [trade EXCEPT !.profit = profit])]

\* The update for one trade (the body of both trade loops).
apply_trade(acc, trade) ==
    IF is_buy(trade)
    THEN LET cost == trade.price * trade.amount + trade.fee
         IN  [acc EXCEPT !.buy_trades = @ + 1,
                         !.total_cost = Plus(@, Whole(cost)),
                         !.balance = @ - cost,
                         !.position = @ + trade.amount,
                         !.trades_with_profit = Append(@, trade)]
    ELSE LET proceeds == trade.price * trade.amount
             revenue == proceeds - trade.fee
             average_cost == IF acc.position = 0 THEN Zero
                             ELSE Over(acc.total_cost, Whole(acc.position))
             consumed == Times(average_cost, Whole(trade.amount))
             profit == Minus(Whole(revenue), consumed)
             position == acc.position - trade.amount
             won == Less(Zero, profit)
             lost == Less(profit, Zero)
         IN  [acc EXCEPT !.sell_trades = @ + 1,
                         !.position = position,
                         !.balance = @ + revenue,
                         !.total_cost = IF position = 0 THEN Zero ELSE Minus(@, consumed),
                         !.winning_trades = IF won THEN @ + 1 ELSE @,
                         !.gross_profit = IF won THEN Plus(@, profit) ELSE @,
                         !.largest_win = IF won /\ Less(@, profit) THEN profit ELSE @,
                         !.losing_trades = IF lost THEN @ + 1 ELSE @,
                         !.gross_loss = IF lost THEN Plus(@, profit) ELSE @,
                         !.largest_loss = IF lost /\ Less(profit, @) THEN profit ELSE @,
                         !.trades_with_profit = Append(@, [trade EXCEPT !.profit = profit])]

\* The inner loop of the candle loop: the trades up to the candle's timestamp.
RECURSIVE take_trades(_, _)
take_trades(acc, candle) ==
    IF acc.trades_iter = <<>> THEN acc
    ELSE IF Head(acc.trades_iter).timestamp > candle.timestamp THEN acc
    ELSE CHOOSE taken \in
            { take_trades(next, candle) :
                next \in {apply_trade([acc EXCEPT !.trades_iter = Tail(@)],
                                      Head(acc.trades_iter))} } : TRUE

\* The equity update taking the candle's high value as the new max_equity.
mark_equity_last_high(acc, candle) ==
    LET high_value == acc.position * candle.high + acc.balance
        max_equity == high_value
        low_value == acc.position * candle.low + acc.balance
        drawdown == max_equity - low_value
    IN  [acc EXCEPT !.max_equity = max_equity,
                    !.max_drawdown = IF drawdown > @ THEN drawdown ELSE @]

\* The equity and drawdown update of a candle.
mark_equity(acc, candle) ==
    LET high_value == acc.position * candle.high + acc.balance
        max_equity == IF high_value > acc.max_equity THEN high_value ELSE acc.max_equity
        low_value == acc.position * candle.low + acc.balance
        drawdown == max_equity - low_value
    IN  [acc EXCEPT !.max_equity = max_equity,
                    !.max_drawdown = IF drawdown > @ THEN drawdown ELSE @]

\* The candle loop: the locals after each candle, in the order of the candles.
RECURSIVE statistic_pass(_, _)
statistic_pass(acc, candles) ==
    IF candles = <<>> THEN <<>>
    ELSE CHOOSE steps \in
            { <<after>> \o statistic_pass(after, Tail(candles)) :
                after \in {mark_equity(take_trades(acc, Head(candles)), Head(candles))} }
            : TRUE

\* The loop after the candle loop: the trades the iterator still holds.
RECURSIVE drain(_)
drain(acc) ==
    IF acc.trades_iter = <<>> THEN acc
    ELSE CHOOSE drained \in
            { drain(next) :
                next \in {apply_trade([acc EXCEPT !.trades_iter = Tail(@)],
                                      Head(acc.trades_iter))} } : TRUE

\* BacktestTask::calculate_backtest_statistic. The f32 fields of the
\* statistic (return_percent, max_drawdown_percent, profit_factor,
\* sharpe_ratio, win_rate) are left out.
calculate_backtest_statistic(initial_capital, candles, trades) ==
    LET start == accumulator(initial_capital, trades)
        after_candles(steps) == drain(IF steps = <<>> THEN start ELSE steps[Len(steps)])
        result(acc) ==
        [ trades |-> acc.trades_with_profit,
          initial_capital |-> initial_capital,
          total_cost |-> acc.total_cost,
          net_profit |-> with_scale_round_half_up(Plus(acc.gross_profit, acc.gross_loss)),
          max_equity |-> acc.max_equity,
          max_drawdown |-> acc.max_drawdown,
          gross_profit |-> acc.gross_profit,
          gross_loss |-> acc.gross_loss,
          total_trades |-> acc.buy_trades + acc.sell_trades,
          buy_trades |-> acc.buy_trades,
          sell_trades |-> acc.sell_trades,
          winning_trades |-> acc.winning_trades,
          losing_trades |-> acc.losing_trades,
          avg_win |-> IF acc.winning_trades > 0
                      THEN with_scale_round_half_up(
                               Over(acc.gross_profit, Whole(acc.winning_trades)))
                      ELSE Zero,
          avg_loss |-> IF acc.losing_trades > 0
                       THEN with_scale_round_half_up(
                                Over(acc.gross_loss, Whole(acc.losing_trades)))
                       ELSE Zero,
          largest_win |-> acc.largest_win,
          largest_loss |-> acc.largest_loss ]
    IN  CHOOSE stat \in
            { result(acc) :
                acc \in { after_candles(steps) : steps \in {statistic_pass(start, candles)} } }
            : TRUE

\* Option<BacktestStatistic>: None is the empty sequence, Some(s) the
\* sequence of s alone.
NoStatistic == << >>
Some(stat) == << stat >>

\* ------------------------------------------------------------------- state

VARIABLES
    status,         \* BacktestTask.status
    progress,       \* BacktestTask.progress, as the fraction num/den
    statistic,      \* BacktestTask.statistic: NoStatistic or Some(the BacktestStatistic)
    error_message,  \* BacktestTask.error_message: "None" or the error's text
    completed_at,   \* BacktestTask.completed_at: "None" or "Some"
    events,         \* what BacktestTask::broadcast has sent, oldest first
    pc,             \* where the spawned execution stands
    total_candles,  \* all_candles.len()
    index,          \* the index of the candle loop
    context,        \* the StrategyContext of the run
    calls,          \* context calls the strategy has made in this run
    ret,            \* the last context call of the tick under way and what it returned
    next_id,        \* the next Uuid::new_v4()
    end_calls,      \* invocations of StrategyContext::end
    tracked,        \* the id of the order whose round trip is followed (0: none)
    round_trip,     \* "idle", "tracking" (it rests), "filled" or "cancelled"
    shadow,         \* while it rests: the context of the same run had that order
                    \* never been placed
    between,        \* a context call was made while that order rested
    diverged,       \* one of those calls returned Ok in one run and Err in the other
    call_limit,     \* the context calls the strategy makes at most in the run
    registered,     \* the task is in state.backtest_tasks
    task_writer,    \* the write guard of the task's RwLock is held (by the run)
    task_readers,   \* the handlers holding a read guard of the task's RwLock
    registry_readers, \* the handlers holding a read guard of state.backtest_tasks
    l_pc,           \* where a get_all_tasks / get_task request stands
    s_pc,           \* where a stream_tasks request stands
    rx_start,       \* the events sent before the receiver rx was opened
    rx_pos,         \* the events sent that rx has received or skipped
    initial_events, \* stream_tasks: initial_events
    stream,         \* what the stream of stream_tasks has yielded
    shutdown,       \* state.shutdown_token is cancelled
    rounding        \* round_amount, or the f32 progress of the candle loop, applied on
                    \* its own: its arguments and results

vars == << status, progress, statistic, error_message, completed_at, events, pc,
           total_candles,
           index, context, calls, ret, next_id, end_calls, tracked, round_trip,
           shadow, between, diverged, call_limit, registered, task_writer,
           task_readers, registry_readers, l_pc, s_pc, rx_start, rx_pos,
           initial_events, stream, shutdown, rounding >>

\* The variables of the handlers around the run.
service_vars == << call_limit, registered, task_readers, registry_readers, l_pc, s_pc,
                  rx_start, rx_pos, initial_events, stream, shutdown >>

\* The variables of the round trip followed.
round_trip_vars == << tracked, round_trip, shadow, between, diverged >>

\* The order followed is resting.
Tracking == round_trip = "tracking"

\* The ids an order followed is drawn from: the first order placed.
TrackedIds == {1}

\* A context call (its name and arguments) with what it returned (Ok or Err, and
\* the Option<Uuid> of limit_*, 0 for None).
Call(op, price, amount, order_id, r) ==
    [op |-> op, price |-> price, amount |-> amount, order_id |-> order_id,
     ok |-> r.ok, id |-> r.id]

NoRet == [op |-> "none", price |-> 0, amount |-> 0, order_id |-> 0, ok |-> TRUE, id |-> 0]

\* The BacktestTask a broadcast clones.
Snapshot(st, pr, stat, msg) ==
    [status |-> st, progress |-> pr, statistic |-> stat, error_message |-> msg]

\* create_task, to its broadcast: the task is built Pending with progress 0
\* and broadcast; it is not yet in the registry.
Start(id, limit) ==
    /\ status = "Pending"
    /\ progress = Rat(0, 1)
    /\ statistic = NoStatistic
    /\ error_message = "None"
    /\ completed_at = "None"
    /\ events = << Snapshot("Pending", Rat(0, 1), NoStatistic, "None") >>
    /\ pc = "created"
    /\ total_candles = 0
    /\ index = 0
    /\ context = NoContext
    /\ calls = 0
    /\ ret = NoRet
    /\ next_id = 1
    /\ end_calls = 0
    /\ tracked = id
    /\ round_trip = "idle"
    /\ shadow = NoContext
    /\ between = FALSE
    /\ diverged = FALSE
    /\ call_limit = limit
    /\ registered = FALSE
    /\ task_writer = FALSE
    /\ task_readers = {}
    /\ registry_readers = {}
    /\ l_pc = "idle"
    /\ s_pc = "idle"
    /\ rx_start = 0
    /\ rx_pos = 0
    /\ initial_events = <<>>
    /\ stream = <<>>
    /\ shutdown = FALSE

\* round_amount has not been applied on its own.
NoRounding == [at |-> "none"]

Init == Start(0, MaxCalls) /\ rounding = NoRounding

\* The same start, with the round trip of one order followed.
InitRoundTrip == \E id \in TrackedIds : Start(id, MaxCalls) /\ rounding = NoRounding

\* The same start, of a strategy that makes one context call in the run.
InitService == Start(0, 1) /\ rounding = NoRounding

\* No task is run; a value, a step and a mode are drawn for round_amount.
InitRounding ==
    /\ Start(0, MaxCalls)
    /\ \E x \in RoundingValues, step \in RoundingSteps, m \in RoundingModes :
          rounding = [at |-> "drawn", value |-> x, amount_precision |-> step, mode |-> m]

\* The plans of the runs the statistic pass is applied to on its own: the
\* candles, and the calls in the order of the candles of their ticks.
Scripts(n) ==
    { script \in UNION { [1..m -> [op : {"market_buy", "market_sell"},
                                   amount : StatisticAmounts, candle : 1..n]] : m \in 0..MaxCalls } :
          \A i \in 1..Len(script), j \in 1..Len(script) :
              i < j => script[i].candle <= script[j].candle }
Plans ==
    UNION { [shapes : [1..n -> StatisticShapes], script : Scripts(n)] : n \in 1..MaxCandles }

\* A run of one of those plans, at the return of context.end(): the task is
\* Running under its write guard, the progress of candle 0 has been broadcast.
InitStatistic ==
    \E plan \in Plans, fees \in FeeSchedules, step \in StatisticSteps :
        /\ context = candle_loop(new_context(InitialCapital, fees,
                                             [amount_precision |-> step]),
                                 plan.shapes, plan.script)
        /\ status = "Running"
        /\ progress = progress_of(0, Len(plan.shapes))
        /\ statistic = NoStatistic
        /\ error_message = "None"
        /\ completed_at = "None"
        /\ events = << Snapshot("Pending", Rat(0, 1), NoStatistic, "None"),
                       Snapshot("Running", Rat(0, 1), NoStatistic, "None"),
                       Snapshot("Running", progress_of(0, Len(plan.shapes)), NoStatistic, "None") >>
        /\ pc = "finish"
        /\ total_candles = Len(plan.shapes)
        /\ index = Len(plan.shapes)
        /\ calls = 0
        /\ ret = NoRet
        /\ next_id = 1
        /\ end_calls = 1
        /\ tracked = 0
        /\ round_trip = "idle"
        /\ shadow = NoContext
        /\ between = FALSE
        /\ diverged = FALSE
        /\ call_limit = 0
        /\ registered = TRUE
        /\ task_writer = TRUE
        /\ task_readers = {}
        /\ registry_readers = {}
        /\ l_pc = "idle"
        /\ s_pc = "idle"
        /\ rx_start = 0
        /\ rx_pos = 0
        /\ initial_events = <<>>
        /\ stream = <<>>
        /\ shutdown = FALSE
        /\ rounding = NoRounding

\* The progress the task has when the loop comes to the candle of an index:
\* that of the last broadcast before it, 0 before the first.
progress_before(i, total) ==
    IF i = 0 THEN Rat(0, 1)
    ELSE progress_of(BACKTEST_BROADCAST_INTERVAL * ((i - 1) \div BACKTEST_BROADCAST_INTERVAL),
                     total)

\* The runs whose progress is computed on its own: those whose progress is
\* at least 1/2 at the candle (the f32 values below have denominators the
\* integers of the model do not hold).
ProgressRuns ==
    { run \in UNION { [total_candles : {total}, index : ProgressIndices(total)] :
                         total \in ProgressTotals } :
          \/ run.index = 0 /\ run.total_candles <= 2 * BACKTEST_BROADCAST_INTERVAL
          \/ run.index > 0 /\ 2 * BACKTEST_BROADCAST_INTERVAL
                                  * (BACKTEST_BROADCAST_INTERVAL
                                       * ((run.index - 1) \div BACKTEST_BROADCAST_INTERVAL) + 1)
                                 >= run.total_candles }

\* No task is run; the candle loop of a run stands at a candle.
InitProgress ==
    /\ Start(0, MaxCalls)
    /\ \E run \in ProgressRuns :
          rounding = [ at |-> "candle", index |-> run.index,
                       total_candles |-> run.total_candles,
                       progress |-> progress_before(run.index, run.total_candles) ]

\* ------------------------------------------------------------ BacktestTask

\* execute() that leaves the status Pending while the run goes on.
ExecuteStart_StillPending ==
    /\ pc = "spawned"
    /\ task_readers = {}
    /\ task_writer' = TRUE
    /\ events' = Append(events, Snapshot(status, progress, statistic, error_message))
    /\ pc' = "get_candles"
    /\ UNCHANGED << status, progress, statistic, error_message, total_candles, index,
                    context, calls, ret, next_id, end_calls >>
    /\ UNCHANGED round_trip_vars
    /\ UNCHANGED completed_at
    /\ UNCHANGED service_vars
    /\ UNCHANGED rounding

\* The spawned execution running without the write guard of its task.
ExecuteStart_unlocked ==
    /\ pc = "spawned"
    /\ status' = "Running"
    /\ events' = Append(events, Snapshot("Running", progress, statistic, error_message))
    /\ pc' = "get_candles"
    /\ UNCHANGED << progress, statistic, error_message, total_candles, index, context,
                    calls, ret, next_id, end_calls >>
    /\ UNCHANGED round_trip_vars
    /\ UNCHANGED << completed_at, task_writer >>
    /\ UNCHANGED service_vars
    /\ UNCHANGED rounding

\* The spawned execution: task.write().await, then execute() to its first
\* broadcast. The write guard is held until execute() returns.
ExecuteStart ==
    /\ pc = "spawned"
    /\ task_readers = {}
    /\ task_writer' = TRUE
    /\ status' = "Running"
    /\ events' = Append(events, Snapshot("Running", progress, statistic, error_message))
    /\ pc' = "get_candles"
    /\ UNCHANGED << progress, statistic, error_message, total_candles, index, context,
                    calls, ret, next_id, end_calls >>
    /\ UNCHANGED round_trip_vars
    /\ UNCHANGED completed_at
    /\ UNCHANGED service_vars
    /\ UNCHANGED rounding

\* The Err arm of execute() clearing the progress of the failed task.
Failed_resets_progress(msg) ==
    /\ status' = "Failed"
    /\ error_message' = msg
    /\ completed_at' = "Some"
    /\ task_writer' = FALSE
    /\ progress' = Rat(0, 1)
    /\ events' = Append(events, Snapshot("Failed", progress', statistic, msg))
    /\ pc' = "done"
    /\ UNCHANGED statistic

\* execute_backtest returned Err(msg): the Err arm of execute() and its broadcast.
Failed(msg) ==
    /\ status' = "Failed"
    /\ error_message' = msg
    /\ completed_at' = "Some"
    /\ task_writer' = FALSE
    /\ events' = Append(events, Snapshot("Failed", progress, statistic, msg))
    /\ pc' = "done"
    /\ UNCHANGED << progress, statistic >>

\* get_candles fails.
GetCandlesErr ==
    /\ pc = "get_candles"
    /\ Failed("candle store")
    /\ UNCHANGED << total_candles, index, context, calls, ret, next_id, end_calls >>
    /\ UNCHANGED round_trip_vars
    /\ UNCHANGED service_vars
    /\ UNCHANGED rounding

\* get_candles returning n candles without the check for an empty window.
GetCandles_unchecked(n) ==
    /\ pc = "get_candles"
    /\ total_candles' = n
    /\ pc' = "setup"
    /\ UNCHANGED << status, progress, statistic, error_message, completed_at,
                    task_writer, events >>
    /\ UNCHANGED << index, context, calls, ret, next_id, end_calls >>
    /\ UNCHANGED round_trip_vars
    /\ UNCHANGED service_vars
    /\ UNCHANGED rounding

\* get_candles returns n candles; none is an error.
GetCandles(n) ==
    /\ pc = "get_candles"
    /\ total_candles' = n
    /\ IF n = 0
       THEN /\ Failed("No candles available for backtest")
       ELSE /\ pc' = "setup"
            /\ UNCHANGED << status, progress, statistic, error_message, completed_at,
                            task_writer, events >>
    /\ UNCHANGED << index, context, calls, ret, next_id, end_calls >>
    /\ UNCHANGED round_trip_vars
    /\ UNCHANGED service_vars
    /\ UNCHANGED rounding

\* CCXT::with_exchange, fees or precision fails.
SetupErr ==
    /\ pc = "setup"
    /\ Failed("exchange metadata")
    /\ UNCHANGED << total_candles, index, context, calls, ret, next_id, end_calls >>
    /\ UNCHANGED round_trip_vars
    /\ UNCHANGED service_vars
    /\ UNCHANGED rounding

\* The exchange metadata is obtained and the context is built.
Setup(fees, step) ==
    /\ pc = "setup"
    /\ context' = new_context(InitialCapital, fees, [amount_precision |-> step])
    /\ index' = 0
    /\ pc' = "loop"
    /\ UNCHANGED << status, progress, statistic, error_message, events, total_candles,
                    calls, ret, next_id, end_calls >>
    /\ UNCHANGED round_trip_vars
    /\ UNCHANGED << completed_at, task_writer >>
    /\ UNCHANGED service_vars
    /\ UNCHANGED rounding

\* The loop leaving off at the next candle once the shutdown token is cancelled.
NextCandle_until_shutdown(shape) ==
    /\ pc = "loop"
    /\ index < total_candles
    /\ ~shutdown
    /\ LET candle == [timestamp |-> index + 1, high |-> shape.high,
                      low |-> shape.low, close |-> shape.close]
       IN  /\ context' = [context EXCEPT !.candles = Append(@, candle)]
           /\ shadow' = IF Tracking THEN [shadow EXCEPT !.candles = Append(@, candle)]
                                    ELSE shadow
    /\ pc' = "before"
    /\ UNCHANGED << tracked, round_trip, between, diverged >>
    /\ UNCHANGED << status, progress, statistic, error_message, events, total_candles,
                    index, calls, ret, next_id, end_calls >>
    /\ UNCHANGED << completed_at, task_writer >>
    /\ UNCHANGED service_vars
    /\ UNCHANGED rounding

\* The loop takes the next candle (timestamps strictly increasing) and pushes it.
NextCandle(shape) ==
    /\ pc = "loop"
    /\ index < total_candles
    /\ LET candle == [timestamp |-> index + 1, high |-> shape.high,
                      low |-> shape.low, close |-> shape.close]
       IN  /\ context' = [context EXCEPT !.candles = Append(@, candle)]
           /\ shadow' = IF Tracking THEN [shadow EXCEPT !.candles = Append(@, candle)]
                                    ELSE shadow
    /\ pc' = "before"
    /\ UNCHANGED << tracked, round_trip, between, diverged >>
    /\ UNCHANGED << status, progress, statistic, error_message, events, total_candles,
                    index, calls, ret, next_id, end_calls >>
    /\ UNCHANGED << completed_at, task_writer >>
    /\ UNCHANGED service_vars
    /\ UNCHANGED rounding

\* context.before()
Before ==
    /\ pc = "before"
    /\ context' = before(context)
    /\ LET filled == Tracking /\ \A i \in 1..Len(context'.orders) :
                                       context'.orders[i].id # tracked
       IN  /\ round_trip' = IF filled THEN "filled" ELSE round_trip
           /\ shadow' = IF filled THEN NoContext
                        ELSE IF Tracking THEN before(shadow) ELSE shadow
           /\ between' = (~filled /\ between)
           /\ diverged' = (~filled /\ diverged)
    /\ pc' = "tick"
    /\ ret' = NoRet
    /\ UNCHANGED tracked
    /\ UNCHANGED << status, progress, statistic, error_message, events, total_candles,
                    index, calls, next_id, end_calls >>
    /\ UNCHANGED << completed_at, task_writer >>
    /\ UNCHANGED service_vars
    /\ UNCHANGED rounding

\* One context call of the strategy's tick; rs is what the same call returns
\* on the shadow context (used only while an order is followed).
StrategyCall(r, rs, call) ==
    /\ pc = "tick"
    /\ calls < MaxCalls
    /\ calls < call_limit
    /\ calls' = calls + 1
    /\ context' = r.ctx
    /\ ret' = call
    /\ next_id' = IF r.id # 0 \/ (Tracking /\ rs.id # 0) THEN next_id + 1 ELSE next_id
    /\ LET placed == round_trip = "idle" /\ r.id # 0 /\ r.id = tracked
           cancelled == Tracking /\ call.op = "cancel_order" /\ call.order_id = tracked
       IN  /\ round_trip' = IF placed THEN "tracking"
                            ELSE IF cancelled THEN "cancelled" ELSE round_trip
           /\ shadow' = IF placed THEN context
                        ELSE IF cancelled THEN NoContext
                        ELSE IF Tracking THEN rs.ctx ELSE shadow
           /\ between' = (between \/ (Tracking /\ ~cancelled))
           /\ diverged' = (diverged \/ (Tracking /\ rs.ok # r.ok))
    /\ UNCHANGED tracked
    /\ UNCHANGED << status, progress, statistic, error_message, events, pc,
                    total_candles, index, end_calls >>
    /\ UNCHANGED << completed_at, task_writer >>
    /\ UNCHANGED service_vars
    /\ UNCHANGED rounding

MarketBuy(amount) ==
    LET r == market_buy(context, amount)
        rs == market_buy(shadow, amount)
    IN  StrategyCall(r, rs, Call("market_buy", 0, amount, 0, r))

MarketSell(amount) ==
    LET r == market_sell(context, amount)
        rs == market_sell(shadow, amount)
    IN  StrategyCall(r, rs, Call("market_sell", 0, amount, 0, r))

LimitBuy(price, amount) ==
    LET r == limit_buy(context, price, amount, next_id)
        rs == limit_buy(shadow, price, amount, next_id)
    IN  StrategyCall(r, rs, Call("limit_buy", price, amount, 0, r))

LimitSell(price, amount) ==
    LET r == limit_sell(context, price, amount, next_id)
        rs == limit_sell(shadow, price, amount, next_id)
    IN  StrategyCall(r, rs, Call("limit_sell", price, amount, 0, r))

CancelOrder(order_id) ==
    LET r == Ok(cancel_order(context, order_id), 0)
        rs == Ok(cancel_order(shadow, order_id), 0)
    IN  StrategyCall(r, rs, Call("cancel_order", 0, 0, order_id, r))

\* tick returns Ok and the resting orders are matched against the candle of
\* the tick.
TickOk_matching_again ==
    /\ pc = "tick"
    /\ pc' = "after"
    /\ ret' = NoRet
    /\ context' = before(context)
    /\ UNCHANGED << status, progress, statistic, error_message, events, total_candles,
                    index, calls, next_id, end_calls >>
    /\ UNCHANGED round_trip_vars
    /\ UNCHANGED << completed_at, task_writer >>
    /\ UNCHANGED service_vars
    /\ UNCHANGED rounding

\* tick returns Ok.
TickOk ==
    /\ pc = "tick"
    /\ pc' = "after"
    /\ ret' = NoRet
    /\ UNCHANGED << status, progress, statistic, error_message, events, total_candles,
                    index, context, calls, next_id, end_calls >>
    /\ UNCHANGED round_trip_vars
    /\ UNCHANGED << completed_at, task_writer >>
    /\ UNCHANGED service_vars
    /\ UNCHANGED rounding

\* tick returns Err and the task is marked Failed, but the candle loop goes on.
TickErr_loop_goes_on ==
    /\ pc = "tick"
    /\ status' = "Failed"
    /\ error_message' = "strategy"
    /\ completed_at' = "Some"
    /\ events' = Append(events, Snapshot("Failed", progress, statistic, "strategy"))
    /\ pc' = "after"
    /\ ret' = NoRet
    /\ UNCHANGED << progress, statistic, task_writer >>
    /\ UNCHANGED << total_candles, index, context, calls, next_id, end_calls >>
    /\ UNCHANGED round_trip_vars
    /\ UNCHANGED service_vars
    /\ UNCHANGED rounding

\* tick returns Err: the run is aborted.
TickErr ==
    /\ pc = "tick"
    /\ Failed("strategy")
    /\ ret' = NoRet
    /\ UNCHANGED << total_candles, index, context, calls, next_id, end_calls >>
    /\ UNCHANGED round_trip_vars
    /\ UNCHANGED service_vars
    /\ UNCHANGED rounding

\* context.after() (a no-op) and the progress update of the loop body.
AfterAndProgress ==
    /\ pc = "after"
    /\ IF index % BACKTEST_BROADCAST_INTERVAL = 0
       THEN /\ progress' = progress_of(index, total_candles)
            /\ events' = Append(events, Snapshot(status, progress', statistic, error_message))
       ELSE UNCHANGED << progress, events >>
    /\ index' = index + 1
    /\ pc' = "loop"
    /\ UNCHANGED << status, statistic, error_message, total_candles, context, calls,
                    ret, next_id, end_calls >>
    /\ UNCHANGED round_trip_vars
    /\ UNCHANGED << completed_at, task_writer >>
    /\ UNCHANGED service_vars
    /\ UNCHANGED rounding

\* context.end(), after the last candle.
End ==
    /\ pc = "loop"
    /\ index = total_candles
    /\ context' = end(context)
    /\ round_trip' = IF Tracking THEN "cancelled" ELSE round_trip
    /\ shadow' = NoContext
    /\ end_calls' = end_calls + 1
    /\ pc' = "finish"
    /\ UNCHANGED << tracked, between, diverged >>
    /\ UNCHANGED << status, progress, statistic, error_message, events, total_candles,
                    index, calls, ret, next_id >>
    /\ UNCHANGED << completed_at, task_writer >>
    /\ UNCHANGED service_vars
    /\ UNCHANGED rounding

\* The end of the run without the broadcast of progress 100.
Finish_without_progress_broadcast ==
    /\ pc = "finish"
    /\ progress' = Rat(100, 1)
    /\ statistic' = Some(calculate_backtest_statistic(InitialCapital, context.candles,
                                                      context.trades))
    /\ status' = "Completed"
    /\ completed_at' = "Some"
    /\ task_writer' = FALSE
    /\ events' = Append(events, Snapshot("Completed", Rat(100, 1), statistic', error_message))
    /\ pc' = "done"
    /\ UNCHANGED << error_message, total_candles, index, context, calls, ret, next_id,
                    end_calls >>
    /\ UNCHANGED round_trip_vars
    /\ UNCHANGED service_vars
    /\ UNCHANGED rounding

\* The rest of execute_backtest and the Ok arm of execute(): progress 100 is
\* broadcast, the statistic is computed, the task is Completed and broadcast.
Finish ==
    /\ pc = "finish"
    /\ progress' = Rat(100, 1)
    /\ statistic' = Some(calculate_backtest_statistic(InitialCapital, context.candles,
                                                      context.trades))
    /\ status' = "Completed"
    /\ completed_at' = "Some"
    /\ task_writer' = FALSE
    /\ events' = events \o << Snapshot(status, Rat(100, 1), statistic, error_message),
                              Snapshot("Completed", Rat(100, 1), statistic', error_message) >>
    /\ pc' = "done"
    /\ UNCHANGED << error_message, total_candles, index, context, calls, ret, next_id,
                    end_calls >>
    /\ UNCHANGED round_trip_vars
    /\ UNCHANGED service_vars
    /\ UNCHANGED rounding

\* create_task, the rest: the task is inserted in the registry under its
\* write lock and the execution is spawned.
Register ==
    /\ pc = "created"
    /\ registry_readers = {}
    /\ registered' = TRUE
    /\ pc' = "spawned"
    /\ UNCHANGED << status, progress, statistic, error_message, completed_at, events,
                    total_candles, index, context, calls, ret, next_id, end_calls,
                    task_writer >>
    /\ UNCHANGED round_trip_vars
    /\ UNCHANGED << call_limit, task_readers, registry_readers, l_pc, s_pc, rx_start,
                    rx_pos, initial_events, stream, shutdown, rounding >>

\* The variables of the run.
run_vars == << status, progress, statistic, error_message, completed_at, events, pc,
              total_candles, index, context, calls, ret, next_id, end_calls, tracked,
              round_trip, shadow, between, diverged, call_limit, registered,
              task_writer >>

\* The BacktestTask as a handler reads it under the read guard.
Record == Snapshot(status, progress, statistic, error_message)

\* ------------------------------------------------ get_all_tasks / get_task

\* state.backtest_tasks.read().await
ListRegistry ==
    /\ l_pc = "idle"
    /\ registry_readers' = registry_readers \cup {"list"}
    /\ l_pc' = "registry"
    /\ UNCHANGED run_vars
    /\ UNCHANGED rounding
    /\ UNCHANGED << task_readers, s_pc, rx_start, rx_pos, initial_events, stream,
                    shutdown >>

\* task.read() that is granted while the run holds the write guard.
ListTask_beside_writer ==
    /\ l_pc = "registry"
    /\ registered
    /\ task_readers' = task_readers \cup {"list"}
    /\ l_pc' = "task"
    /\ UNCHANGED run_vars
    /\ UNCHANGED rounding
    /\ UNCHANGED << registry_readers, s_pc, rx_start, rx_pos, initial_events, stream,
                    shutdown >>

\* task.read().await for the task found: it waits while the run holds the
\* write guard.
ListTask ==
    /\ l_pc = "registry"
    /\ registered
    /\ ~task_writer
    /\ task_readers' = task_readers \cup {"list"}
    /\ l_pc' = "task"
    /\ UNCHANGED run_vars
    /\ UNCHANGED rounding
    /\ UNCHANGED << registry_readers, s_pc, rx_start, rx_pos, initial_events, stream,
                    shutdown >>

\* The clone is taken and the guards are dropped; with no task in the
\* registry the handler returns at once.
ListReturn ==
    /\ l_pc = "task" \/ (l_pc = "registry" /\ ~registered)
    /\ task_readers' = task_readers \ {"list"}
    /\ registry_readers' = registry_readers \ {"list"}
    /\ l_pc' = "idle"
    /\ UNCHANGED run_vars
    /\ UNCHANGED rounding
    /\ UNCHANGED << s_pc, rx_start, rx_pos, initial_events, stream, shutdown >>

\* ------------------------------------------------------------ stream_tasks

\* state.backtest_event_tx.subscribe(): rx receives what is sent from now on.
Subscribe ==
    /\ s_pc = "idle"
    /\ rx_start' = Len(events)
    /\ rx_pos' = Len(events)
    /\ s_pc' = "subscribed"
    /\ UNCHANGED run_vars
    /\ UNCHANGED rounding
    /\ UNCHANGED << task_readers, registry_readers, l_pc, initial_events, stream,
                    shutdown >>

\* state.backtest_tasks.read().await
SnapshotRegistry ==
    /\ s_pc = "subscribed"
    /\ registry_readers' = registry_readers \cup {"stream"}
    /\ s_pc' = "registry"
    /\ UNCHANGED run_vars
    /\ UNCHANGED rounding
    /\ UNCHANGED << task_readers, l_pc, rx_start, rx_pos, initial_events, stream,
                    shutdown >>

\* task.read().await for the task found.
SnapshotTask ==
    /\ s_pc = "registry"
    /\ registered
    /\ ~task_writer
    /\ task_readers' = task_readers \cup {"stream"}
    /\ s_pc' = "task"
    /\ UNCHANGED run_vars
    /\ UNCHANGED rounding
    /\ UNCHANGED << registry_readers, l_pc, rx_start, rx_pos, initial_events, stream,
                    shutdown >>

\* The task read is pushed to initial_events (nothing with an empty registry)
\* and the guards are dropped.
SnapshotDone ==
    /\ s_pc = "task" \/ (s_pc = "registry" /\ ~registered)
    /\ initial_events' = IF s_pc = "task" THEN << Record >> ELSE <<>>
    /\ task_readers' = task_readers \ {"stream"}
    /\ registry_readers' = registry_readers \ {"stream"}
    /\ s_pc' = "snapshot"
    /\ UNCHANGED run_vars
    /\ UNCHANGED rounding
    /\ UNCHANGED << l_pc, rx_start, rx_pos, stream, shutdown >>

\* The stream with a receiver opened only when the stream starts.
StreamStart_late_receiver ==
    /\ s_pc = "snapshot"
    /\ stream' = initial_events
    /\ rx_start' = Len(events)
    /\ rx_pos' = Len(events)
    /\ s_pc' = "stream"
    /\ UNCHANGED run_vars
    /\ UNCHANGED rounding
    /\ UNCHANGED << task_readers, registry_readers, l_pc, initial_events, shutdown >>

\* The stream starts: it yields initial_events.
StreamStart ==
    /\ s_pc = "snapshot"
    /\ stream' = initial_events
    /\ s_pc' = "stream"
    /\ UNCHANGED run_vars
    /\ UNCHANGED rounding
    /\ UNCHANGED << task_readers, registry_readers, l_pc, rx_start, rx_pos,
                    initial_events, shutdown >>

\* The recv arm of the select: rx.recv() returns the oldest event not yet
\* received and the stream yields it.
StreamRecv ==
    /\ s_pc = "stream"
    /\ rx_pos < Len(events)
    /\ stream' = Append(stream, events[rx_pos + 1])
    /\ rx_pos' = rx_pos + 1
    /\ UNCHANGED run_vars
    /\ UNCHANGED rounding
    /\ UNCHANGED << task_readers, registry_readers, l_pc, s_pc, rx_start,
                    initial_events, shutdown >>

\* The cancelled arm of the select: the stream ends.
StreamShutdown ==
    /\ s_pc = "stream"
    /\ shutdown
    /\ s_pc' = "ended"
    /\ UNCHANGED run_vars
    /\ UNCHANGED rounding
    /\ UNCHANGED << task_readers, registry_readers, l_pc, rx_start, rx_pos,
                    initial_events, stream, shutdown >>

\* The process-wide shutdown signal: state.shutdown_token is cancelled.
Shutdown ==
    /\ ~shutdown
    /\ shutdown' = TRUE
    /\ UNCHANGED run_vars
    /\ UNCHANGED rounding
    /\ UNCHANGED << task_readers, registry_readers, l_pc, s_pc, rx_start, rx_pos,
                    initial_events, stream >>

Next ==
    \/ Register
    \/ ExecuteStart
    \/ GetCandlesErr
    \/ \E n \in 0..MaxCandles : GetCandles(n)
    \/ SetupErr
    \/ \E fees \in FeeSchedules, step \in AmountSteps : Setup(fees, step)
    \/ \E shape \in CandleShapes : NextCandle(shape)
    \/ Before
    \/ \E a \in Amounts : MarketBuy(a)
    \/ \E a \in Amounts : MarketSell(a)
    \/ \E p \in LimitPrices, a \in Amounts : LimitBuy(p, a)
    \/ \E p \in LimitPrices, a \in Amounts : LimitSell(p, a)
    \/ \E id \in 1..next_id : CancelOrder(id)
    \/ TickOk
    \/ TickErr
    \/ AfterAndProgress
    \/ End
    \/ Finish

Spec == Init /\ [][Next]_vars

\* The same program, with the round trip of one order followed.
SpecRoundTrip == InitRoundTrip /\ [][Next]_vars

\* round_amount(x, m)
RoundAmount ==
    /\ rounding.at = "drawn"
    /\ rounding' = [ at |-> "rounded",
                     value |-> rounding.value,
                     amount_precision |-> rounding.amount_precision,
                     mode |-> rounding.mode,
                     rounded |-> round_amount(rounding, Rat(rounding.value, 1),
                                              rounding.mode) ]
    /\ UNCHANGED run_vars
    /\ UNCHANGED service_vars

\* round_amount(round_amount(x, m), m)
RoundAmountAgain ==
    /\ rounding.at = "rounded"
    /\ rounding' = [ at |-> "rounded twice",
                     value |-> rounding.value,
                     amount_precision |-> rounding.amount_precision,
                     mode |-> rounding.mode,
                     rounded |-> rounding.rounded,
                     again |-> round_amount(rounding, Rat(rounding.rounded, 1),
                                            rounding.mode) ]
    /\ UNCHANGED run_vars
    /\ UNCHANGED service_vars

NextRounding == RoundAmount \/ RoundAmountAgain

\* round_amount on its own, applied once and twice to the value drawn.
SpecRounding == InitRounding /\ [][NextRounding]_vars

\* The end of the loop body for the candle: the progress update, broadcast,
\* when the index is a multiple of the interval.
ProgressUpdate ==
    /\ rounding.at = "candle"
    /\ LET update == rounding.index % BACKTEST_BROADCAST_INTERVAL = 0
       IN  rounding' = [ at |-> "looped", index |-> rounding.index,
                         total_candles |-> rounding.total_candles,
                         before |-> rounding.progress,
                         progress |-> IF update
                                      THEN progress_of(rounding.index, rounding.total_candles)
                                      ELSE rounding.progress,
                         broadcast |-> update ]
    /\ UNCHANGED run_vars
    /\ UNCHANGED service_vars

\* After the last candle: context.end(), self.progress = 100.0, broadcast.
ProgressEnd ==
    /\ rounding.at = "looped"
    /\ rounding.index + 1 = rounding.total_candles
    /\ rounding' = [ at |-> "ended", index |-> rounding.index,
                     total_candles |-> rounding.total_candles,
                     before |-> rounding.progress,
                     progress |-> Rat(100, 1),
                     broadcast |-> TRUE ]
    /\ UNCHANGED run_vars
    /\ UNCHANGED service_vars

NextProgress == ProgressUpdate \/ ProgressEnd

\* The progress of the candle loop on its own.
SpecProgress == InitProgress /\ [][NextProgress]_vars

\* The statistic pass on its own: the end of the runs of InitStatistic.
NextStatistic == Finish

SpecStatistic == InitStatistic /\ [][NextStatistic]_vars

\* The steps of the handlers that read the tasks, and the shutdown signal.
Handlers ==
    \/ ListRegistry
    \/ ListTask
    \/ ListReturn
    \/ Subscribe
    \/ SnapshotRegistry
    \/ SnapshotTask
    \/ SnapshotDone
    \/ StreamStart
    \/ StreamRecv
    \/ StreamShutdown
    \/ Shutdown

NextService == Next \/ Handlers

\* The run together with the handlers that read it.
SpecService == InitService /\ [][NextService]_vars

\* The run and the handlers as the runtime schedules them: the spawned task
\* of a run keeps being polled while it has a step to take, and a stream that
\* is being served takes the cancelled arm of its select once the token is
\* cancelled.
SpecServiceFair == SpecService /\ WF_vars(Next) /\ WF_vars(StreamShutdown)

\* The run of a strategy that makes no context call.
NextQuiet ==
    \/ Register
    \/ ExecuteStart
    \/ GetCandlesErr
    \/ \E n \in 0..MaxCandles : GetCandles(n)
    \/ SetupErr
    \/ \E fees \in FeeSchedules, step \in AmountSteps : Setup(fees, step)
    \/ \E shape \in CandleShapes : NextCandle(shape)
    \/ Before
    \/ TickOk
    \/ TickErr
    \/ AfterAndProgress
    \/ End
    \/ Finish

InitReads == Start(0, 0) /\ rounding = NoRounding

NextReads == NextQuiet \/ Handlers

\* create_task, to its broadcast, of a strategy that makes no context call,
\* with no stream_tasks request served yet or with one whose stream was
\* opened before create_task was called: its receiver has seen nothing.
InitObserved ==
    \E opened \in BOOLEAN :
        /\ status = "Pending"
        /\ progress = Rat(0, 1)
        /\ statistic = NoStatistic
        /\ error_message = "None"
        /\ completed_at = "None"
        /\ events = << Snapshot("Pending", Rat(0, 1), NoStatistic, "None") >>
        /\ pc = "created"
        /\ total_candles = 0
        /\ index = 0
        /\ context = NoContext
        /\ calls = 0
        /\ ret = NoRet
        /\ next_id = 1
        /\ end_calls = 0
        /\ tracked = 0
        /\ round_trip = "idle"
        /\ shadow = NoContext
        /\ between = FALSE
        /\ diverged = FALSE
        /\ call_limit = 0
        /\ registered = FALSE
        /\ task_writer = FALSE
        /\ task_readers = {}
        /\ registry_readers = {}
        /\ l_pc = "idle"
        /\ s_pc = IF opened THEN "stream" ELSE "idle"
        /\ rx_start = 0
        /\ rx_pos = 0
        /\ initial_events = <<>>
        /\ stream = <<>>
        /\ shutdown = FALSE
        /\ rounding = NoRounding

\* create_task beside the handlers, a stream open before it or not.
SpecObserved == InitObserved /\ [][NextReads]_vars

\* The handlers beside that run: the run is scheduled until it ends, and a
\* task.read().await that can be granted is granted (the lock queues its
\* waiters).
SpecReads ==
    /\ InitReads /\ [][NextReads]_vars
    /\ WF_vars(NextQuiet) /\ WF_vars(ListTask) /\ WF_vars(SnapshotTask)

\* ------------------------------------------------------------------ claims

\* The step is a context call of the strategy: ret' is that call.
IsCall == pc = "tick" /\ calls' = calls + 1
IsCallOf(ops) == IsCall /\ ret'.op \in ops

\* The rounded amount and price of a call, as market_* and limit_* compute them.
Rounded(x) == round_amount(context.precision, Rat(x, 1), "Down")

\* C1: with non-negative initial capital, fee rates and candle prices, the
\* balance of the context is >= 0 after every sequence of context operations.
C1_BalanceNonNegative == context.built => context.balance >= 0

\* C2: the position of the context is >= 0 in every state, and a market_sell or
\* limit_sell whose rounded amount exceeds the position (which already excludes
\* what resting LimitSell orders reserve) is refused and sells nothing.
C2_PositionNonNegative ==
    /\ [](context.built => context.position >= 0)
    /\ [][ IsCallOf({"market_sell", "limit_sell"}) /\ Rounded(ret'.amount) > context.position
             => ~ret'.ok /\ context' = context ]_vars

\* A sell of a positive amount was refused for lack of position while a resting
\* LimitSell reserves some of what was bought.
C2_Witness ==
    /\ pc = "tick"
    /\ ret.op \in {"market_sell", "limit_sell"}
    /\ ~ret.ok
    /\ Rounded(ret.amount) > context.position
    /\ context.position > 0
    /\ \E i \in 1..Len(context.orders) : context.orders[i].order_type = "LimitSell"

\* What cancelling the order returns to the balance and to the position.
BalanceRefund(o) ==
    IF o.order_type = "LimitBuy" THEN o.price * o.amount + o.fee ELSE o.fee
PositionRefund(o) ==
    IF o.order_type = "LimitSell" THEN o.amount ELSE 0

\* The step cancels the order followed (by cancel_order, from the strategy or
\* from end()).
CancelsTracked == Tracking /\ round_trip' = "cancelled"

\* After the step the balance and the position are those of the run in which
\* the order was never placed, after the same step there.
AsIfNeverPlaced ==
    LET never == IF end_calls' # end_calls THEN end(shadow)
                                          ELSE cancel_order(shadow, tracked)
    IN  /\ context'.balance = never.balance
        /\ context'.position = never.position

\* cancel_order of a resting order refunds exactly price*amount + fee for a
\* LimitBuy, and the amount to the position and the fee to the balance for a
\* LimitSell.
ExactRefund ==
    IsCallOf({"cancel_order"}) =>
        \A i \in 1..Len(context.orders) :
            context.orders[i].id = ret'.order_id =>
                /\ context'.balance = context.balance + BalanceRefund(context.orders[i])
                /\ context'.position = context.position + PositionRefund(context.orders[i])

\* The order followed, while it rests.
TrackedOrder ==
    context.orders[CHOOSE i \in 1..Len(context.orders) : context.orders[i].id = tracked]

\* C3 as stated: a limit_buy or limit_sell that returns an order id, followed,
\* with any other operations in between that do not fill or touch that order,
\* by cancel_order of that id, leaves balance and position exactly as they
\* would have been had the order never been placed; the refund is exact. It
\* is taken here for orders of a positive price only, so that a violation
\* owes nothing to the negative reservation of a negative price (see C1).
C3_RoundTripAnyOperations ==
    [][ (CancelsTracked /\ TrackedOrder.price > 0 => AsIfNeverPlaced) /\ ExactRefund ]_vars

\* C3, amended: the same, provided every operation in between returns Ok or
\* Err as it would have returned had the order never been placed (what the
\* order reserves is not available to the operations in between).
C3_RoundTripSameOutcomes ==
    [][ (CancelsTracked /\ ~diverged' => AsIfNeverPlaced) /\ ExactRefund ]_vars

\* The first order placed was cancelled by the strategy after a market_buy
\* that succeeded while the order rested, as it would have without the order:
\* balance and position are those the market_buy alone leaves.
C3_Witness ==
    /\ round_trip = "cancelled" /\ ~diverged
    /\ tracked = 1
    /\ pc = "tick"
    /\ ret.op = "cancel_order" /\ ret.order_id = tracked
    /\ calls = 3 /\ next_id = 2 /\ between
    /\ context.orders = <<>>
    /\ Len(context.trades) = 1
    /\ context.trades[1].trade_type = "MarketBuy"
    /\ context.position = context.trades[1].amount
    /\ context.balance =
         InitialCapital - (context.trades[1].price * context.trades[1].amount
                           + context.trades[1].fee)

TradingOps == {"market_buy", "market_sell", "limit_buy", "limit_sell"}

\* C4: a trading operation that returns an error (a limit_* call whose fallback
\* to market_* fails included) leaves balance, position, the resting orders
\* and the journal, indeed the whole context, unchanged.
C4_ErrorLeavesContextUnchanged ==
    [][ IsCallOf(TradingOps) /\ ~ret'.ok => context' = context ]_vars

\* A limit_buy that crossed the market fell back to market_buy, which was
\* refused for insufficient funds, in a context that had traded before.
C4_Witness ==
    /\ pc = "tick"
    /\ ret.op = "limit_buy"
    /\ ~ret.ok
    /\ Rounded(ret.amount) > 0
    /\ Rounded(ret.price) >= candle_of(context).close
    /\ context.trades # <<>>

\* The journal is sorted by timestamp.
JournalSorted(trades) ==
    \A i, j \in 1..Len(trades) : i <= j => trades[i].timestamp <= trades[j].timestamp

\* C5: the journal is append-only with non-decreasing timestamps: a step never
\* removes or changes an entry, and each entry it appends carries the timestamp
\* of the current (last pushed) candle.
C5_JournalAppendOnly ==
    /\ [](context.built => JournalSorted(context.trades))
    /\ [][ context.built =>
             /\ Len(context'.trades) >= Len(context.trades)
             /\ SubSeq(context'.trades, 1, Len(context.trades)) = context.trades
             /\ \A i \in (Len(context.trades) + 1)..Len(context'.trades) :
                    context'.trades[i].timestamp = candle_of(context').timestamp ]_vars

\* The journal holds a trade of the first candle followed by a limit fill of
\* the second.
C5_Witness ==
    /\ context.built
    /\ Len(context.trades) >= 2
    /\ context.trades[1].timestamp = 1
    /\ context.trades[Len(context.trades)].timestamp = 2
    /\ context.trades[Len(context.trades)].trade_type = "LimitBuy"

\* C10: the status starts Pending and only ever moves Pending -> Running,
\* Running -> Completed or Running -> Failed; Completed and Failed are final.
C10_StatusTransitions ==
    /\ status = "Pending"
    /\ [][ status' # status =>
             << status, status' >> \in { << "Pending", "Running" >>,
                                         << "Running", "Completed" >>,
                                         << "Running", "Failed" >> } ]_vars

\* A task that has gone through Pending, Running and Completed, as its
\* broadcasts show.
C10_Witness ==
    /\ status = "Completed"
    /\ events[1].status = "Pending"
    /\ events[2].status = "Running"
    /\ events[Len(events)].status = "Completed"

\* The taker fee market_* charge on the close price for the rounded amount.
TakerFee(self, amount) ==
    round_amount(self.precision,
                 Rat(candle_of(self).close * amount * self.fees.taker.num,
                     self.fees.taker.den), "Up")

\* C6: a limit order that crosses the market degrades to a market order:
\* limit_buy with rounded price >= close has the effect and outcome of
\* market_buy(amount), limit_sell with rounded price <= close those of
\* market_sell(amount); no order is added, the returned id is absent, and the
\* fee journalled is the taker fee on the close price.
C6_CrossingLimitIsMarket ==
    [][ /\ ( IsCallOf({"limit_buy"}) /\ Rounded(ret'.price) >= candle_of(context).close
             => LET m == market_buy(context, ret'.amount)
                IN  /\ context' = m.ctx
                    /\ ret'.ok = m.ok
                    /\ ret'.id = 0
                    /\ context'.orders = context.orders
                    /\ ret'.ok =>
                         LET t == context'.trades[Len(context'.trades)]
                         IN  /\ Len(context'.trades) = Len(context.trades) + 1
                             /\ t.trade_type = "MarketBuy"
                             /\ t.price = candle_of(context).close
                             /\ t.amount = Rounded(ret'.amount)
                             /\ t.fee = TakerFee(context, Rounded(ret'.amount))
                             /\ context'.balance = context.balance - (t.price * t.amount + t.fee) )
        /\ ( IsCallOf({"limit_sell"}) /\ Rounded(ret'.price) <= candle_of(context).close
             => LET m == market_sell(context, ret'.amount)
                IN  /\ context' = m.ctx
                    /\ ret'.ok = m.ok
                    /\ ret'.id = 0
                    /\ context'.orders = context.orders
                    /\ ret'.ok =>
                         LET t == context'.trades[Len(context'.trades)]
                         IN  /\ Len(context'.trades) = Len(context.trades) + 1
                             /\ t.trade_type = "MarketSell"
                             /\ t.price = candle_of(context).close
                             /\ t.amount = Rounded(ret'.amount)
                             /\ t.fee = TakerFee(context, Rounded(ret'.amount))
                             /\ context'.balance = context.balance + (t.price * t.amount - t.fee) )
      ]_vars

\* A limit_sell above the close whose price, rounded to the step, is the close:
\* it was executed as a market sell and returned no id.
C6_Witness ==
    /\ pc = "tick"
    /\ ret.op = "limit_sell"
    /\ ret.ok /\ ret.id = 0
    /\ ret.price > candle_of(context).close
    /\ Rounded(ret.price) = candle_of(context).close
    /\ context.trades[Len(context.trades)].trade_type = "MarketSell"

\* The resting order o matches the candle.
Matches(o, candle) ==
    \/ o.order_type = "LimitBuy" /\ o.price >= candle.low
    \/ o.order_type = "LimitSell" /\ o.price <= candle.high

\* What the journal says of a fill or an order: its kind, price, amount and fee.
Terms(x, type) == << type, x.price, x.amount, x.fee >>

\* The journal entries a step appends.
Appended == SubSeq(context'.trades, Len(context.trades) + 1, Len(context'.trades))

\* C7: before() fills exactly the resting orders the current candle matches (a
\* LimitBuy iff price >= low, a LimitSell iff price <= high) and removes them;
\* every other order stays resting, unchanged and in place, so that no order
\* left matches the candle; each fill is journalled at the stored price and
\* amount of its order.
C7_BeforeFillsMatching ==
    [][ pc = "before" =>
          LET candle == candle_of(context)
              hit == SelectSeq(context.orders, LAMBDA o : Matches(o, candle))
          IN  /\ context'.orders = SelectSeq(context.orders, LAMBDA o : ~Matches(o, candle))
              /\ \A i \in 1..Len(context'.orders) : ~Matches(context'.orders[i], candle)
              /\ Len(Appended) = Len(hit)
              /\ { Terms(Appended[i], Appended[i].trade_type) : i \in 1..Len(Appended) }
                   = { Terms(hit[i], hit[i].order_type) : i \in 1..Len(hit) }
              /\ \A i \in 1..Len(Appended) :
                    Appended[i].timestamp = candle.timestamp ]_vars

\* before() has just filled an order whose price is the candle's low or high
\* and left another order resting.
C7_Witness ==
    /\ pc = "tick" /\ ret.op = "none"
    /\ context.orders # <<>>
    /\ context.trades # <<>>
    /\ LET t == context.trades[Len(context.trades)]
           candle == candle_of(context)
       IN  /\ t.timestamp = candle.timestamp
           /\ \/ t.trade_type = "LimitBuy" /\ t.price = candle.low
              \/ t.trade_type = "LimitSell" /\ t.price = candle.high

IsLimit(t) == t.trade_type \in {"LimitBuy", "LimitSell"}

\* C8: within a candle the entries of limit matching precede the entries of
\* the strategy's tick, and the fills of one before() are journalled in the
\* placement order of their orders (self.orders is kept in placement order).
C8_FillsBeforeTickTrades ==
    /\ [](context.built =>
            /\ \A i, j \in 1..Len(context.trades) :
                  /\ i < j
                  /\ context.trades[i].timestamp = context.trades[j].timestamp
                  /\ IsLimit(context.trades[j])
                  => IsLimit(context.trades[i])
            /\ \A i, j \in 1..Len(context.orders) :
                  i < j => context.orders[i].id < context.orders[j].id)
    /\ [][ pc = "before" =>
             LET candle == candle_of(context)
                 hit == SelectSeq(context.orders, LAMBDA o : Matches(o, candle))
             IN  [i \in 1..Len(Appended) |-> Terms(Appended[i], Appended[i].trade_type)]
                   = [i \in 1..Len(hit) |-> Terms(hit[i], hit[i].order_type)] ]_vars

\* The journal ends with two different limit fills of the current candle and,
\* after them, a trade of that candle's tick.
C8_Witness ==
    /\ context.built
    /\ Len(context.trades) >= 3
    /\ LET n == Len(context.trades)
           a == context.trades[n - 2]
           b == context.trades[n - 1]
           c == context.trades[n]
       IN  /\ IsLimit(a) /\ IsLimit(b) /\ ~IsLimit(c)
           /\ Terms(a, a.trade_type) # Terms(b, b.trade_type)
           /\ a.timestamp = c.timestamp /\ b.timestamp = c.timestamp

RECURSIVE SumOver(_, _)
\* The sum of f[o] over the orders of a sequence.
SumOver(orders, f) ==
    IF orders = <<>> THEN 0 ELSE f[Head(orders)] + SumOver(Tail(orders), f)

\* C9: end() is invoked once, after the last candle's before/tick/after, and
\* cancels every resting order: afterwards no order rests, each LimitBuy has
\* had price*amount + fee returned to the balance, each LimitSell its amount
\* to the position and its fee to the balance, and the journal is unchanged.
C9_EndCancelsAll ==
    /\ [](/\ end_calls <= 1
          /\ status = "Completed" => end_calls = 1 /\ context.orders = <<>>
          /\ end_calls = 1 =>
               /\ index = total_candles
               /\ Len(context.candles) = total_candles
               /\ pc \in {"finish", "done"})
    /\ [][ end_calls' # end_calls =>
             LET resting == context.orders
                 byBalance == [o \in { resting[i] : i \in 1..Len(resting) } |-> BalanceRefund(o)]
                 byPosition == [o \in { resting[i] : i \in 1..Len(resting) } |-> PositionRefund(o)]
             IN  /\ pc = "loop" /\ index = total_candles
                 /\ context'.orders = <<>>
                 /\ context'.balance = context.balance + SumOver(resting, byBalance)
                 /\ context'.position = context.position + SumOver(resting, byPosition)
                 /\ context'.trades = context.trades
                 /\ context'.candles = context.candles ]_vars

\* end() has run on a context where two orders were resting: three calls were
\* made, one bought, two placed an order, and no order was filled or
\* cancelled by the strategy.
C9_Witness ==
    /\ pc = "finish"
    /\ end_calls = 1
    /\ calls = 3 /\ next_id = 3
    /\ Len(context.trades) = 1
    /\ context.trades[1].trade_type = "MarketBuy"
    /\ context.orders = <<>>
    /\ context.position = context.trades[1].amount
    /\ context.balance =
         InitialCapital - (context.trades[1].price * context.trades[1].amount
                           + context.trades[1].fee)

\* The errors of the ports during the setup of a run.
PortErrors == {"candle store", "exchange metadata"}

\* C11: a failure of a port during the setup of a run (fetching the candles,
\* obtaining fees or precision) fails the task before it enters Running: the
\* task is Failed without its status having been Running and without a
\* Running state having been broadcast.
C11_SetupFailureBeforeRunning ==
    status = "Failed" /\ error_message \in PortErrors
        => \A i \in 1..Len(events) : events[i].status # "Running"

NoData == "No candles available for backtest"

\* C12: when the candle window is empty the task ends Failed with the no-data
\* error and nothing of a run has happened: no StrategyContext is built, no
\* candle is processed and the tick is never reached, no progress update is
\* emitted and no statistic is produced; a run goes past get_candles, and
\* completes, only with a non-empty window.
C12_EmptyWindowFailsClean ==
    /\ status = "Failed" /\ error_message = NoData =>
          /\ total_candles = 0
          /\ ~context.built
          /\ index = 0 /\ calls = 0 /\ end_calls = 0
          /\ progress = Rat(0, 1)
          /\ statistic = NoStatistic
          /\ \A i \in 1..Len(events) :
                events[i].progress = Rat(0, 1) /\ events[i].statistic = NoStatistic
    /\ pc \in {"setup", "loop", "before", "tick", "after", "finish"} => total_candles > 0
    /\ pc \in {"before", "tick", "after"} => context.built
    /\ status = "Completed" => total_candles > 0

\* The run of an empty window has failed.
C12_Witness ==
    /\ pc = "done"
    /\ status = "Failed"
    /\ error_message = NoData
    /\ Len(events) = 3

\* C13: the terminal record is consistent with its status. Completed:
\* progress 100, a statistic, completed_at set, no error_message. Failed:
\* error_message set, no statistic, completed_at set, and the progress is the
\* one carried by the last broadcast emitted before the failure.
C13_TerminalRecord ==
    /\ status = "Completed" =>
          /\ progress = Rat(100, 1)
          /\ statistic # NoStatistic
          /\ completed_at = "Some"
          /\ error_message = "None"
    /\ status = "Failed" =>
          /\ error_message # "None"
          /\ statistic = NoStatistic
          /\ completed_at = "Some"
          /\ Len(events) >= 2
          /\ events[Len(events)].status = "Failed"
          /\ events[Len(events) - 1].status = "Running"
          /\ progress = events[Len(events) - 1].progress
    /\ status \in {"Pending", "Running"} => completed_at = "None"

\* The strategy failed on the second candle, after the progress update of the
\* first was broadcast: the failed task keeps that progress.
C13_Witness ==
    /\ status = "Failed"
    /\ error_message = "strategy"
    /\ index = 1
    /\ progress = progress_of(0, 2)
    /\ events[Len(events) - 1].progress = progress_of(0, 2)

Terminal == {"Completed", "Failed"}

\* Pending, then Running, then a terminal status.
Rank(st) == IF st = "Pending" THEN 0 ELSE IF st = "Running" THEN 1 ELSE 2

\* The events the stream has yielded after its initial_events.
Tail_of_stream == SubSeq(stream, Len(initial_events) + 1, Len(stream))

\* C14: every change of the status or the progress is broadcast before the
\* next change is made (the last event carries the task's status and
\* progress, and two successive events differ by one change at most); the
\* terminal state is broadcast and is the last event of the task; the events
\* are emitted with statuses that never go backwards, and a receiver gets
\* them in the order they were emitted.
C14_BroadcastOrder ==
    /\ [](/\ events[Len(events)].status = status
          /\ events[Len(events)].progress = progress
          /\ \A i, j \in 1..Len(events) :
                i <= j => Rank(events[i].status) <= Rank(events[j].status)
          /\ s_pc \in {"stream", "ended"} =>
                Tail_of_stream = SubSeq(events, rx_start + 1, rx_pos))
    /\ [][ /\ \A i \in (Len(events) + 1)..Len(events') :
                 ~( /\ events'[i].status # events'[i - 1].status
                    /\ events'[i].progress # events'[i - 1].progress )
           /\ SubSeq(events', 1, Len(events)) = events
           /\ status \in Terminal => events' = events ]_vars

\* A receiver opened while the task was Pending has received the Running
\* state, a progress update, progress 100 and the Completed state of a run of
\* two candles, and nothing is left to receive.
C14_Witness ==
    /\ s_pc = "stream"
    /\ status = "Completed"
    /\ total_candles = 2
    /\ rx_start = 1 /\ rx_pos = Len(events)
    /\ Len(Tail_of_stream) = 4
    /\ Tail_of_stream[1].status = "Running"
    /\ Tail_of_stream[2].progress = progress_of(0, 2)
    /\ Tail_of_stream[3].progress = Rat(100, 1)
    /\ Tail_of_stream[4].status = "Completed"

\* Where the run stands between taking the write guard and returning.
RunningPcs == {"get_candles", "setup", "loop", "before", "tick", "after", "finish"}

\* C17: reading the tasks (get_all_tasks, get_task, the snapshot of
\* stream_tasks) never blocks a running backtest: from its first statement to
\* its last the run holds the write guard of its task, no reader holds a
\* guard of that task, and the next step of the run (the candle loop, the
\* progress updates) is enabled whatever the readers do.
C17_ReadersNeverBlockRun ==
    pc \in RunningPcs =>
        /\ task_writer
        /\ task_readers = {}
        /\ ENABLED Next

\* Both readers hold the read guard of the registry and wait for the task
\* while the run is in the tick of its second candle.
C17_Witness ==
    /\ pc = "tick" /\ index = 1
    /\ registered
    /\ l_pc = "registry"
    /\ s_pc = "registry"
    /\ registry_readers = {"list", "stream"}

\* What the stream yields if nothing more is sent: its initial_events, then
\* every event sent since rx was opened.
Known == initial_events \o SubSeq(events, rx_start + 1, Len(events))

\* C18: stream_tasks yields snapshot-then-delta. The snapshot holds one record
\* for every task in the registry when it is read; the stream yields it
\* first, then the events sent since the receiver was opened, in order; as
\* the receiver is opened before the snapshot is read, a state change made
\* after the snapshot is never lost: the last record the stream has to yield
\* is the task as it is now.
C18_SnapshotThenDelta ==
    /\ [](/\ rx_start <= rx_pos /\ rx_pos <= Len(events)
          /\ s_pc \in {"stream", "ended"} =>
                stream = initial_events \o SubSeq(events, rx_start + 1, rx_pos)
          /\ s_pc \in {"snapshot", "stream"} /\ Known # <<>> =>
                Known[Len(Known)] = Record)
    /\ [][ s_pc # "snapshot" /\ s_pc' = "snapshot" =>
             /\ rx_start <= Len(events)
             /\ initial_events' = IF registered THEN << Record >> ELSE <<>> ]_vars

\* The snapshot was read while the task was Pending and the task went Running
\* before the stream started: the Running state waits in the receiver.
C18_Witness ==
    /\ s_pc = "snapshot"
    /\ Len(initial_events) = 1
    /\ initial_events[1].status = "Pending"
    /\ status = "Running"
    /\ rx_start = 1
    /\ events[rx_start + 1].status = "Running"

\* The errors a run can end with.
RunErrors == PortErrors \cup {NoData, "strategy"}

\* C19: the shutdown signal ends the observer streams and never interrupts a
\* backtest. The signal itself changes nothing of the run; a run that is
\* under way when the token is cancelled always has its next step to take
\* and reaches its end; a task Completed has processed every candle of its
\* window and called end() once, a task Failed carries an error of its own
\* run; a stream that is being served ends, and only after the signal.
C19_ShutdownSparesRun ==
    /\ [](shutdown /\ pc \in RunningPcs => ENABLED Next)
    /\ [](status = "Completed" =>
            /\ index = total_candles
            /\ Len(context.candles) = total_candles
            /\ end_calls = 1)
    /\ [](status = "Failed" => error_message \in RunErrors)
    /\ [](s_pc = "ended" => shutdown)
    /\ [][shutdown' # shutdown => UNCHANGED run_vars]_vars
    /\ (shutdown /\ pc \in RunningPcs ~> pc = "done" /\ status \in Terminal)
    /\ (shutdown /\ s_pc = "stream" ~> s_pc = "ended")

\* The token was cancelled during the first candle of a window of two, with
\* the stream open: the stream has ended and the run is Completed with both
\* candles processed.
C19_Witness ==
    /\ shutdown
    /\ s_pc = "ended"
    /\ status = "Completed"
    /\ total_candles = 2
    /\ index = 2
    /\ rx_start = 1
    /\ rx_pos = 1
    /\ stream = << >>
    /\ Len(events) = 5

\* The funds the resting orders of the context hold.
Reserved ==
    SumOver(context.orders,
            [o \in {context.orders[i] : i \in 1..Len(context.orders)} |-> BalanceRefund(o)])

\* The sum of the realized profits the statistic pass assigned to the sells.
RECURSIVE RealizedProfit(_)
RealizedProfit(trades) ==
    IF trades = <<>> THEN Zero
    ELSE IF is_buy(Head(trades)) THEN RealizedProfit(Tail(trades))
    ELSE Plus(Head(trades).profit, RealizedProfit(Tail(trades)))

\* The close of the last candle of the run.
LastClose == context.candles[Len(context.candles)].close

\* Rounding: two amounts agree when they differ by less than one unit.
Agree(p, q) == Less(Minus(p, q), Whole(1)) /\ Less(Minus(q, p), Whole(1))

\* C15 (as stated): at the end of any completed run, balance + the funds
\* reserved by open orders + position * last close equals initial_capital +
\* the sum of the realized profits of the sells, up to rounding.
C15_AccountingClosure ==
    status = "Completed" =>
        Agree(Whole(context.balance + Reserved + context.position * LastClose),
              Plus(Whole(InitialCapital), RealizedProfit(statistic[1].trades)))

\* C15: at the end of any completed run, balance + the funds reserved by open
\* orders + the statistic's total_cost (what the position still held has
\* cost, fees included) equals initial_capital + the sum of the realized
\* profits of the sells, up to rounding; so the closure with position * last
\* close holds for the runs that end without a position.
C15_ClosureAtCost ==
    status = "Completed" =>
        /\ Agree(Plus(Whole(context.balance + Reserved), statistic[1].total_cost),
                 Plus(Whole(InitialCapital), RealizedProfit(statistic[1].trades)))
        /\ context.position = 0 =>
              /\ statistic[1].total_cost = Zero
              /\ Agree(Whole(context.balance + Reserved + context.position * LastClose),
                       Plus(Whole(InitialCapital), RealizedProfit(statistic[1].trades)))

\* A completed run that bought, sold a part with a profit and ends with a
\* position that cost less than it is worth at the last close.
C15_Witness ==
    /\ status = "Completed"
    /\ context.position > 0
    /\ statistic[1].sell_trades = 1
    /\ Less(Zero, RealizedProfit(statistic[1].trades))
    /\ Less(statistic[1].total_cost, Whole(context.position * LastClose))

\* The locals of the statistic pass of the run: before the first candle, and
\* after each candle.
PassSteps ==
    LET start == accumulator(InitialCapital, context.trades)
    IN  <<start>> \o statistic_pass(start, context.candles)

\* C16: during the statistic pass max_equity never decreases from one candle
\* to the next and is never below initial_capital, max_drawdown never
\* decreases and is >= 0, and after each candle max_drawdown is at least
\* max_equity - (position * candle.low + balance) for that candle; the
\* statistic carries the values after the last candle.
C16_StatisticMonotone ==
    status = "Completed" =>
        LET steps == PassSteps
        IN  /\ \A i \in 1..Len(context.candles) :
                  LET prev == steps[i]
                      acc == steps[i + 1]
                      candle == context.candles[i]
                  IN  /\ acc.max_equity >= prev.max_equity
                      /\ acc.max_equity >= InitialCapital
                      /\ acc.max_drawdown >= prev.max_drawdown
                      /\ acc.max_drawdown >= 0
                      /\ acc.max_drawdown
                            >= acc.max_equity - (acc.position * candle.low + acc.balance)
            /\ statistic[1].max_equity = steps[Len(steps)].max_equity
            /\ statistic[1].max_drawdown = steps[Len(steps)].max_drawdown

\* A pass over two candles: a position is held whose high value is below the
\* capital on the first candle and above it on the second, where the
\* drawdown grows too.
C16_Witness ==
    /\ status = "Completed"
    /\ Len(context.candles) = 2
    /\ PassSteps[2].position > 0
    /\ PassSteps[2].position * context.candles[1].high + PassSteps[2].balance < InitialCapital
    /\ PassSteps[2].max_equity = InitialCapital
    /\ PassSteps[3].max_equity > InitialCapital
    /\ PassSteps[2].max_drawdown > 0
    /\ PassSteps[3].max_drawdown > PassSteps[2].max_drawdown

\* C20: rounding is idempotent: for every value x, every amount step and
\* every mode, round_amount(round_amount(x, m), m) = round_amount(x, m); with
\* a step of zero round_amount returns x unchanged.
C20_RoundingIdempotent ==
    /\ rounding.at = "rounded twice" => rounding.again = rounding.rounded
    /\ rounding.at \in {"rounded", "rounded twice"} /\ rounding.amount_precision = 0
          => rounding.rounded = rounding.value

\* A negative value that is no multiple of the step was rounded Up (away
\* from zero) to a multiple, and rounded again.
C20_Witness ==
    /\ rounding.at = "rounded twice"
    /\ rounding.value = -7
    /\ rounding.amount_precision = 3
    /\ rounding.mode = "Up"
    /\ rounding.rounded = -9
    /\ rounding.again = -9

\* C21: a limit fill moves only the leg that was not reserved at placement.
\* Filling a LimitBuy adds its amount to the position and leaves the balance;
\* filling a LimitSell adds price*amount to the balance and leaves the
\* position; each fill appends exactly one journal entry, and before()
\* removes the order: over one before() the position grows by the amounts of
\* the LimitBuys filled, the balance by the proceeds of the LimitSells filled,
\* the journal by one entry and the orders shrink by one per fill.
C21_FillMovesUnreservedLeg ==
    [][ pc = "before" =>
          LET candle == candle_of(context)
              hit == SelectSeq(context.orders, LAMBDA o : Matches(o, candle))
              hits == { hit[i] : i \in 1..Len(hit) }
              bought == SumOver(hit, [o \in hits |->
                            IF o.order_type = "LimitBuy" THEN o.amount ELSE 0])
              proceeds == SumOver(hit, [o \in hits |->
                            IF o.order_type = "LimitSell" THEN o.price * o.amount ELSE 0])
          IN  /\ context'.position = context.position + bought
              /\ context'.balance = context.balance + proceeds
              /\ Len(context'.trades) = Len(context.trades) + Len(hit)
              /\ Len(context'.orders) = Len(context.orders) - Len(hit)
              /\ \A i \in 1..Len(hit) :
                    \A j \in 1..Len(context'.orders) : context'.orders[j].id # hit[i].id
              /\ \A i \in 1..Len(hit) :
                    LET o == hit[i]
                        filled == IF o.order_type = "LimitBuy"
                                  THEN execute_limit_buy(context, candle, o.price, o.amount, o.fee)
                                  ELSE execute_limit_sell(context, candle, o.price, o.amount, o.fee)
                    IN  /\ Len(filled.trades) = Len(context.trades) + 1
                        /\ filled.orders = context.orders
                        /\ IF o.order_type = "LimitBuy"
                           THEN /\ filled.position = context.position + o.amount
                                /\ filled.balance = context.balance
                           ELSE /\ filled.balance = context.balance + o.price * o.amount
                                /\ filled.position = context.position ]_vars

\* before() has just filled the one resting LimitSell of a position bought
\* whole at the first candle: the balance holds the capital less the cost of
\* the buy and the maker fee, plus the proceeds; the position is as the
\* placement left it.
C21_Witness ==
    /\ pc = "tick" /\ ret.op = "none"
    /\ Len(context.candles) = 2
    /\ context.orders = <<>>
    /\ Len(context.trades) = 2
    /\ context.trades[1].trade_type = "MarketBuy"
    /\ context.trades[2].trade_type = "LimitSell"
    /\ context.trades[2].timestamp = 2
    /\ context.position = context.trades[1].amount - context.trades[2].amount
    /\ context.balance = InitialCapital
                            - (context.trades[1].price * context.trades[1].amount
                                 + context.trades[1].fee)
                            - context.trades[2].fee
                            + context.trades[2].price * context.trades[2].amount

\* C22: for each candle the runner appends the candle, then calls before(),
\* then the strategy's tick, then after(), in this order; when the tick of a
\* candle returns an error the run aborts at once: the context is left as the
\* tick left it, no later candle is appended or matched, the strategy is not
\* ticked again, end() is not called, no statistic is produced and the task
\* is Failed with the strategy's error message.
C22_CandleOrderAndAbort ==
    /\ [](/\ pc = "loop" => Len(context.candles) = index
          /\ pc \in {"before", "tick", "after"} => Len(context.candles) = index + 1)
    /\ [](status = "Failed" /\ error_message = "strategy" =>
            /\ pc = "done"
            /\ Len(context.candles) = index + 1
            /\ index < total_candles
            /\ end_calls = 0
            /\ statistic = NoStatistic
            /\ events[Len(events)].status = "Failed"
            /\ events[Len(events)].error_message = "strategy")
    /\ [][ /\ pc = "loop" /\ pc' # "loop" /\ index < total_candles =>
                /\ pc' = "before"
                /\ Len(context'.candles) = Len(context.candles) + 1
                /\ SubSeq(context'.candles, 1, Len(context.candles)) = context.candles
                /\ context'.orders = context.orders
                /\ context'.trades = context.trades
           /\ pc = "before" => pc' = "tick" /\ context' = before(context)
           /\ pc = "tick" /\ pc' # "tick" =>
                /\ context' = context
                /\ calls' = calls
                /\ \/ pc' = "after" /\ status' = status
                   \/ pc' = "done" /\ status' = "Failed" /\ error_message' = "strategy"
           /\ pc = "after" => pc' = "loop" /\ index' = index + 1 /\ context' = context
           /\ pc = "done" => context' = context /\ calls' = calls /\ status' = status
         ]_vars

\* The tick of the first of two candles failed after a context call: the
\* second candle was never appended.
C22_Witness ==
    /\ status = "Failed"
    /\ error_message = "strategy"
    /\ total_candles = 2
    /\ index = 0
    /\ Len(context.candles) = 1
    /\ calls = 1
    /\ context.trades # <<>>

\* The position the journal has built up before its k-th trade.
RECURSIVE PositionBefore(_, _)
PositionBefore(trades, k) ==
    IF k = 1 THEN 0
    ELSE LET t == trades[k - 1]
         IN  PositionBefore(trades, k - 1) + (IF is_buy(t) THEN t.amount ELSE 0 - t.amount)

\* What the position held before the k-th trade has cost: every buy adds
\* price * amount + fee, every sell takes away the average cost of what it
\* sells, and nothing is left when nothing is held.
RECURSIVE CostBefore(_, _)
CostBefore(trades, k) ==
    IF k = 1 THEN Zero
    ELSE LET t == trades[k - 1]
             held == PositionBefore(trades, k - 1)
             cost == CostBefore(trades, k - 1)
         IN  IF is_buy(t) THEN Plus(cost, Whole(t.price * t.amount + t.fee))
             ELSE IF held - t.amount = 0 THEN Zero
             ELSE Minus(cost, Times(IF held = 0 THEN Zero ELSE Over(cost, Whole(held)),
                                    Whole(t.amount)))

\* The k-th trade of the journal sells all that is held.
SellsAll(trades, k) ==
    ~is_buy(trades[k]) /\ PositionBefore(trades, k) = trades[k].amount

\* C23 (as stated): in the statistic pass each sell's realized profit is
\* (price * amount - fee) - avg_cost * amount, avg_cost being total_cost /
\* position before the sell (0 when the position is 0); total_cost gathers
\* price * amount + fee of every buy, loses avg_cost * amount at a sell and is
\* exactly 0 whenever the replayed position reaches 0; so the sell of the
\* whole position yields profit = sell revenue - total buy cost.
C23_RealizedProfitExact ==
    status = "Completed" =>
        LET out == statistic[1].trades
        IN  /\ \A k \in 1..Len(out) :
                  ~is_buy(out[k]) =>
                      LET held == PositionBefore(out, k)
                          cost == CostBefore(out, k)
                          avg_cost == IF held = 0 THEN Zero ELSE Over(cost, Whole(held))
                          revenue == out[k].price * out[k].amount - out[k].fee
                      IN  /\ out[k].profit
                                = Minus(Whole(revenue), Times(avg_cost, Whole(out[k].amount)))
                          /\ SellsAll(out, k) => out[k].profit = Minus(Whole(revenue), cost)
            /\ statistic[1].total_cost = CostBefore(out, Len(out) + 1)
            /\ PositionBefore(out, Len(out) + 1) = 0 => statistic[1].total_cost = Zero

\* C23: the same, the sell of the whole position yielding sell revenue -
\* total buy cost up to rounding: the average cost is a quotient, cut where
\* the division stops, and the profit is taken from the cut quotient.
C23_RealizedProfit ==
    status = "Completed" =>
        LET out == statistic[1].trades
        IN  /\ \A k \in 1..Len(out) :
                  ~is_buy(out[k]) =>
                      LET held == PositionBefore(out, k)
                          cost == CostBefore(out, k)
                          avg_cost == IF held = 0 THEN Zero ELSE Over(cost, Whole(held))
                          revenue == out[k].price * out[k].amount - out[k].fee
                      IN  /\ out[k].profit
                                = Minus(Whole(revenue), Times(avg_cost, Whole(out[k].amount)))
                          /\ SellsAll(out, k) =>
                                Agree(out[k].profit, Minus(Whole(revenue), cost))
            /\ statistic[1].total_cost = CostBefore(out, Len(out) + 1)
            /\ PositionBefore(out, Len(out) + 1) = 0 => statistic[1].total_cost = Zero

\* A completed run that bought 3 for 31 in all, whose average cost 31 / 3
\* does not terminate, and sold the 3: the profit is not revenue - 31, and
\* total_cost is 0.
C23_Witness ==
    /\ status = "Completed"
    /\ Len(statistic[1].trades) = 2
    /\ is_buy(statistic[1].trades[1])
    /\ statistic[1].trades[1].amount = 3
    /\ statistic[1].trades[1].price * 3 + statistic[1].trades[1].fee = 31
    /\ SellsAll(statistic[1].trades, 2)
    /\ statistic[1].trades[2].profit
          # Whole(statistic[1].trades[2].price * 3 - statistic[1].trades[2].fee - 31)
    /\ statistic[1].total_cost = Zero

\* C24: the journal of the statistic has the length and the order of the
\* context's journal and each entry keeps timestamp, type, price, amount and
\* fee; an entry of the statistic's journal has a realized profit exactly
\* when it is a sell; no entry of the context's own journal has a realized
\* profit at any time of the run.
C24_JournalKept ==
    /\ context.built => \A k \in 1..Len(context.trades) : context.trades[k].profit = "None"
    /\ status = "Completed" =>
          LET out == statistic[1].trades
          IN  /\ Len(out) = Len(context.trades)
              /\ \A k \in 1..Len(out) :
                    /\ out[k].timestamp = context.trades[k].timestamp
                    /\ out[k].trade_type = context.trades[k].trade_type
                    /\ out[k].price = context.trades[k].price
                    /\ out[k].amount = context.trades[k].amount
                    /\ out[k].fee = context.trades[k].fee
                    /\ IF is_buy(out[k]) THEN out[k].profit = "None"
                       ELSE out[k].profit.den > 0

\* A completed run whose journal has a limit buy filled at the second candle
\* and a market sell after it: the statistic's journal has the two, the profit
\* on the sell.
C24_Witness ==
    /\ status = "Completed"
    /\ Len(statistic[1].trades) = 2
    /\ statistic[1].trades[1].trade_type = "LimitBuy"
    /\ statistic[1].trades[1].timestamp = 2
    /\ statistic[1].trades[2].trade_type = "MarketSell"
    /\ statistic[1].trades[2].profit.den > 0
    /\ context.trades[2].profit = "None"

\* C25: cancel_order on an id that is not resting (never issued, filled by
\* before(), or cancelled already) changes nothing of the context (balance,
\* position, orders, journal); an id cancelled is not resting afterwards, so
\* a second cancel refunds nothing, and neither does the cancel of a filled
\* order.
C25_CancelAbsentIsNoOp ==
    [][ (pc = "tick" /\ calls' = calls + 1 /\ ret'.op = "cancel_order") =>
            LET id == ret'.order_id
                resting == \E i \in 1..Len(context.orders) : context.orders[i].id = id
            IN  /\ ~resting => context' = context
                /\ id >= next_id => ~resting
                /\ (id = tracked /\ round_trip \in {"filled", "cancelled"}) => ~resting
                /\ resting => /\ Len(context'.orders) = Len(context.orders) - 1
                              /\ Len(context'.trades) = Len(context.trades)
                /\ \A i \in 1..Len(context'.orders) : context'.orders[i].id # id ]_vars

\* The order followed was filled by before() at the second candle, and the
\* tick of that candle has just cancelled its id: the fill is in the journal
\* and the position holds it.
C25_Witness ==
    /\ pc = "tick"
    /\ round_trip = "filled"
    /\ ret.op = "cancel_order"
    /\ ret.order_id = tracked
    /\ Len(context.trades) = 1
    /\ context.trades[1].trade_type = "LimitBuy"
    /\ context.trades[1].timestamp = 2
    /\ context.position = context.trades[1].amount
    /\ context.balance
          = InitialCapital - context.trades[1].price * context.trades[1].amount
                           - context.trades[1].fee

\* p <= q, for two f32 values.
NotAbove(p, q) ==
    LET den == IF p.den >= q.den THEN p.den ELSE q.den
    IN  p.num * (den \div p.den) <= q.num * (den \div q.den)

\* C26 (as stated): in the candle loop a progress update is broadcast exactly
\* for the indices i with i mod 100 = 0, and carries 100 * (i + 1) / |C|; so
\* the progress values of a run never decrease, are greater than 0 and at
\* most 100.
C26_ProgressUpdates ==
    /\ rounding.at = "looped" =>
          /\ rounding.broadcast <=> rounding.index % BACKTEST_BROADCAST_INTERVAL = 0
          /\ rounding.broadcast =>
                /\ rounding.progress = progress_of(rounding.index, rounding.total_candles)
                /\ ~NotAbove(rounding.progress, Rat(0, 1))
                /\ NotAbove(rounding.progress, Rat(100, 1))
          /\ ~rounding.broadcast => rounding.progress = rounding.before
          /\ NotAbove(rounding.before, rounding.progress)
    /\ rounding.at = "ended" =>
          /\ rounding.broadcast
          /\ NotAbove(rounding.before, rounding.progress)
          /\ NotAbove(rounding.progress, Rat(100, 1))

\* The sum of f over the entries of a journal or an order book.
RECURSIVE Total(_, _)
Total(entries, f) ==
    IF entries = <<>> THEN 0 ELSE f[Head(entries)] + Total(Tail(entries), f)

\* What the journal and the resting orders say the balance is: the initial
\* capital, less what the journalled buys cost (fee included), plus what the
\* journalled sells brought (fee taken off), less what the resting limit buys
\* hold (cost and fee) and the fees of the resting limit sells.
BalanceOfBooks ==
    LET trades == { context.trades[i] : i \in 1..Len(context.trades) }
        orders == { context.orders[i] : i \in 1..Len(context.orders) }
    IN  InitialCapital
          + Total(context.trades,
                  [t \in trades |-> IF is_buy(t) THEN 0 - (t.price * t.amount + t.fee)
                                    ELSE t.price * t.amount - t.fee])
          - Total(context.orders,
                  [o \in orders |-> IF o.order_type = "LimitBuy"
                                    THEN o.price * o.amount + o.fee ELSE o.fee])

\* What they say the position is: the amounts bought less the amounts sold
\* and the amounts of the resting limit sells.
PositionOfBooks ==
    LET trades == { context.trades[i] : i \in 1..Len(context.trades) }
        orders == { context.orders[i] : i \in 1..Len(context.orders) }
    IN  Total(context.trades, [t \in trades |-> IF is_buy(t) THEN t.amount ELSE 0 - t.amount])
          - Total(context.orders,
                  [o \in orders |-> IF o.order_type = "LimitSell" THEN o.amount ELSE 0])

\* The locals of the statistic pass at its end, for the journal and the
\* candles of the context.
Replayed ==
    LET start == accumulator(InitialCapital, context.trades)
        steps == statistic_pass(start, context.candles)
    IN  drain(IF steps = <<>> THEN start ELSE steps[Len(steps)])

\* C27: in every state of a run the balance is the initial capital less the
\* journalled buys (price * amount + fee) plus the journalled sells (price *
\* amount - fee) less the resting limit buys (price * amount + fee) and the
\* fees of the resting limit sells, and the position is the amounts bought
\* less the amounts sold and the amounts of the resting limit sells; so after
\* end() the balance and the position the statistic pass replays are the
\* context's.
C27_ValueConservation ==
    context.built =>
        /\ context.balance = BalanceOfBooks
        /\ context.position = PositionOfBooks
        /\ end_calls > 0 =>
              /\ context.orders = <<>>
              /\ Replayed.balance = context.balance
              /\ Replayed.position = context.position

\* A run that bought at the market and has a limit sell and a limit buy
\* resting.
C27_Witness ==
    /\ pc = "tick"
    /\ Len(context.trades) = 1
    /\ context.trades[1].trade_type = "MarketBuy"
    /\ Len(context.orders) = 2
    /\ context.orders[1].order_type = "LimitSell"
    /\ context.orders[2].order_type = "LimitBuy"
    /\ context.position = context.trades[1].amount - context.orders[1].amount
    /\ context.balance < InitialCapital - context.orders[2].price * context.orders[2].amount

\* C28: the run holds the write guard of its task from before Running until
\* after the terminal broadcast, so get_task, get_all_tasks and the snapshot
\* of stream_tasks never read a record whose status is Running; a read that
\* waits for the task while it runs is granted only once the task is
\* Completed or Failed, and is granted: the registry lock and the task lock do
\* not deadlock.
C28_ReadsNeverSeeRunning ==
    /\ [](status = "Running" => task_writer /\ task_readers = {})
    /\ [](l_pc = "task" \/ s_pc = "task" => ~task_writer /\ Record.status # "Running")
    /\ [](\A i \in 1..Len(initial_events) : initial_events[i].status # "Running")
    /\ [][ /\ (status = "Running" /\ l_pc = "registry" => l_pc' = "registry")
           /\ (status = "Running" /\ s_pc = "registry" => s_pc' = "registry")
           /\ (l_pc = "registry" /\ l_pc' = "task" /\ status # "Pending" => status \in Terminal)
           /\ (s_pc = "registry" /\ s_pc' = "task" /\ status # "Pending" => status \in Terminal)
         ]_vars
    /\ (status = "Running" /\ l_pc = "registry" ~> l_pc = "task" /\ status \in Terminal)
    /\ (status = "Running" /\ s_pc = "registry" ~> s_pc = "task" /\ status \in Terminal)

\* get_task holds the read guard of the task of a run of two candles that has
\* Completed, and the snapshot of stream_tasks has read it Completed.
C28_Witness ==
    /\ l_pc = "task"
    /\ task_readers = {"list"}
    /\ status = "Completed"
    /\ total_candles = 2
    /\ s_pc = "snapshot"
    /\ Len(initial_events) = 1
    /\ initial_events[1].status = "Completed"
    /\ rx_start = 2

\* The order followed rests in the context c.
RestsIn(c) == \E i \in 1..Len(c.orders) : c.orders[i].id = tracked

\* C29: an order that the tick of a candle leaves resting is not filled
\* during that candle, even when its price lies within the candle's low and
\* high: it rests, unfilled, through the rest of the tick, after() and the
\* push of the next candle; only before() fills orders, at the earliest that
\* of the next candle, and journals each fill with the timestamp of the
\* candle that fills it; an order placed at the last candle is not filled:
\* end() cancels it.
C29_NoFillInPlacingCandle ==
    [][ context.built /\ context'.built =>
        /\ (pc # "before" =>
              \A k \in 1..Len(Appended) :
                  Appended[k].trade_type \in {"MarketBuy", "MarketSell"})
        /\ (pc = "before" =>
              \A k \in 1..Len(Appended) :
                  /\ Appended[k].trade_type \in {"LimitBuy", "LimitSell"}
                  /\ Appended[k].timestamp = candle_of(context).timestamp
                  /\ Appended[k].timestamp = index + 1)
        /\ (round_trip = "idle" /\ round_trip' = "tracking" =>
              /\ pc = "tick" /\ pc' = "tick"
              /\ RestsIn(context')
              /\ Len(context'.trades) = Len(context.trades))
        /\ (Tracking /\ pc \in {"tick", "after", "loop"} =>
              \/ /\ round_trip' = "tracking"
                 /\ RestsIn(context')
                 /\ TrackedOrder' = TrackedOrder
              \/ /\ round_trip' = "cancelled"
                 /\ ~RestsIn(context')
                 /\ Len(context'.trades) = Len(context.trades)
                 /\ (pc = "tick" /\ ret'.op = "cancel_order") \/ pc' = "finish")
        /\ (Tracking /\ round_trip' = "filled" =>
              /\ pc = "before"
              /\ Matches(TrackedOrder, candle_of(context))
              /\ \E k \in 1..Len(Appended) :
                    /\ Terms(Appended[k], Appended[k].trade_type)
                          = Terms(TrackedOrder, TrackedOrder.order_type)
                    /\ Appended[k].timestamp = candle_of(context).timestamp)
        /\ (pc = "loop" /\ pc' = "finish" =>
              /\ context'.orders = <<>>
              /\ context'.trades = context.trades
              /\ round_trip' # "tracking")
      ]_vars

\* A limit buy placed by the tick of the first candle at a price within that
\* candle's low and high was filled by before() of the second candle and is
\* journalled with the timestamp of the second.
C29_Witness ==
    /\ round_trip = "filled"
    /\ pc = "tick"
    /\ Len(context.candles) = 2
    /\ Len(context.trades) = 1
    /\ context.trades[1].trade_type = "LimitBuy"
    /\ context.trades[1].timestamp = 2
    /\ context.trades[1].price >= context.candles[1].low
    /\ context.trades[1].price <= context.candles[1].high
    /\ context.orders = <<>>

\* C30 (as stated): a task whose Pending event has been broadcast is in the
\* registry already: an observer that has received an event of the task gets
\* its record from get_task, not NotFound; and a subscriber whose stream is
\* opened at any point of create_task sees the task in its snapshot or in
\* its live tail (at the latest when the run starts).
C30_RegisteredBeforeBroadcast ==
    /\ events # <<>> => registered
    /\ stream # <<>> /\ l_pc = "registry" => registered
    /\ s_pc \in {"snapshot", "stream"} /\ pc \notin {"created", "spawned"} => Known # <<>>

\* The stream opened before create_task has yielded the Pending event, and
\* get_task, called then, holds the registry and does not find the task.
C30_NotFoundAfterPending ==
    /\ pc = "created"
    /\ ~registered
    /\ s_pc = "stream"
    /\ Len(stream) = 1
    /\ stream[1].status = "Pending"
    /\ l_pc = "registry"
    /\ registry_readers = {"list"}

====
